---- MODULE Spec2Model ----
(***************************************************************************)
(* Vision-Language-Runtime: the application state machine                  *)
(* (src/src/js/utils/state-machine.js), the inference service              *)
(* (src/js/utils/state-manager.js, class VLMService), the webcam service   *)
(* (src/unnamed/part_002) and their composition in src/src/js/main.js.     *)
(***************************************************************************)
EXTENDS Integers, Sequences, FiniteSets, TLC

VARIABLES
    state,      \* StateMachine.state (AppState record)
    lastCall,   \* the last call made on the StateMachine API and its outcome
    tracks,     \* readyState of the (video) track of every MediaStream
    processor,  \* VLMService: processor and model are set (the model is loaded)
    inferenceLock,  \* VLMService.inferenceLock
    calls,      \* every runInference call: where it is suspended, and its result
    loader,     \* VLMService: isLoaded, isLoading, loadPromise; every load and caller
    app,        \* main.js: its module variables and the component mounted by render
    cam,        \* webcam service: its module variables and its 'ended' handlers
    subs,       \* the subscribers' notifications: made in this order, seen in these
    mgr         \* a StateManager: its state object, its listeners, and what its
                \* callers hold and have been called with

smVars == <<state, lastCall, tracks>>
vlmVars == <<processor, inferenceLock, calls, loader>>
appVars == <<app, cam>>
subVars == <<subs, mgr>>
vars == <<state, lastCall, tracks, processor, inferenceLock, calls, loader, app, cam,
          subs, mgr>>

----------------------------------------------------------------------------
(* Bounds *)

MaxStreams == 2
MaxCalls == 3
MaxLoadScreens == 2
MaxLoops == 2
MaxHeld == 2
MaxListeners == 2
MaxEmitted == 2
MaxSubscribers == 2
MaxNotifications == 3

----------------------------------------------------------------------------
(* Values *)

Streams == 1..MaxStreams
NullStream == 0                 \* webcamStream: null / data.stream: undefined

Undefined == "undefined"        \* a property that is absent or falsy

Null == <<>>                    \* error: null
Some(e) == <<e>>                \* error: an ErrorState record

ViewStates == {"permission", "welcome", "loading", "runtime", "error", "image-upload"}
RuntimeStates == {"idle", "warming", "running", "paused", "recovering", "failed"}
LoadingPhases == {"loading-model", "loading-wgpu", "warming-up", "complete"}

\* recoverAction handlers are closures; each is named by what it does
NoAction == [label |-> Undefined, handler |-> Undefined]
CustomAction == [label |-> "Custom", handler |-> "custom"]
RetryAction == [label |-> "Retry", handler |-> "dispatch:RETRY"]
ReconnectAction == [label |-> "Reconnect", handler |-> "dispatch:RETRY_STREAM"]
ReloadAction == [label |-> "Reload Page", handler |-> "reload"]

\* The events of the transition table, and one event the table does not know
\* (the STREAM_LOST recover action dispatches it)
Events == {"PERMISSION_GRANTED", "PERMISSION_DENIED", "START", "START_FALLBACK",
           "WGPU_READY", "MODEL_LOADED", "WARMUP_COMPLETE", "PAUSE", "RESUME",
           "STREAM_ENDED", "STREAM_RECOVERED", "MODEL_FAILED", "FATAL_ERROR",
           "RETRY", "RETRY_STREAM"}

\* dispatch(event, data = {}): the default payload
EmptyPayload ==
    [stream |-> NullStream, message |-> Undefined, technical |-> Undefined,
     reason |-> Undefined, error |-> Undefined, code |-> Undefined,
     recoverAction |-> NoAction]

\* a payload that carries every property the table's guards and actions read
FullPayload ==
    [stream |-> 1, message |-> "msg", technical |-> "tech",
     reason |-> "unplugged", error |-> "load error", code |-> "E_CUSTOM",
     recoverAction |-> CustomAction]

Payloads ==
    {EmptyPayload, FullPayload}
    \cup {[EmptyPayload EXCEPT !.stream = s] : s \in Streams}

\* JavaScript  a || b  on strings
OrElse(a, b) == IF a = Undefined THEN b ELSE a

----------------------------------------------------------------------------
(* StateMachine *)

\* constructor(initialState): the defaults, overridden by initialState
InitialState(hasWebGPU) ==
    [viewState |-> "permission",
     runtimeState |-> "idle",
     loadingPhase |-> "loading-wgpu",
     webcamStream |-> NullStream,
     isVideoReady |-> FALSE,
     hasWebGPU |-> hasWebGPU,
     error |-> Null]

\* defineTransitions(): event, from, to of each row, in table order
transitions ==
    << [event |-> "PERMISSION_GRANTED", from |-> "permission", to |-> "welcome"],
       [event |-> "PERMISSION_DENIED",  from |-> "permission", to |-> "error"],
       [event |-> "START",              from |-> "welcome",    to |-> "loading"],
       [event |-> "START_FALLBACK",     from |-> "welcome",    to |-> "image-upload"],
       [event |-> "WGPU_READY",         from |-> "loading",    to |-> "loading"],
       [event |-> "MODEL_LOADED",       from |-> "loading",    to |-> "loading"],
       [event |-> "WARMUP_COMPLETE",    from |-> "loading",    to |-> "runtime"],
       [event |-> "PAUSE",              from |-> "runtime",    to |-> "runtime"],
       [event |-> "RESUME",             from |-> "runtime",    to |-> "runtime"],
       [event |-> "STREAM_ENDED",       from |-> "runtime",    to |-> "runtime"],
       [event |-> "STREAM_RECOVERED",   from |-> "runtime",    to |-> "runtime"],
       [event |-> "MODEL_FAILED",       from |-> "loading",    to |-> "error"],
       [event |-> "FATAL_ERROR",        from |-> "*",          to |-> "error"],
       [event |-> "RETRY",              from |-> "error",      to |-> "permission"] >>

\* a mutated guard: START checks the stream only, not hasWebGPU
guard_StartIgnoresWebGPU(i, data, st) ==
    CASE i = 1  -> data.stream # NullStream
      [] i = 3  -> st.webcamStream # NullStream
      [] i = 4  -> ~st.hasWebGPU
      [] i = 7  -> st.isVideoReady
      [] i = 11 -> st.runtimeState = "recovering"
      [] OTHER  -> TRUE

\* a mutated guard: WARMUP_COMPLETE also requires the warm-up phase
guard_ReadsLoadingPhase(i, data, st) ==
    CASE i = 1  -> data.stream # NullStream
      [] i = 3  -> st.hasWebGPU /\ st.webcamStream # NullStream
      [] i = 4  -> ~st.hasWebGPU
      [] i = 7  -> st.isVideoReady /\ st.loadingPhase = "warming-up"
      [] i = 11 -> st.runtimeState = "recovering"
      [] OTHER  -> TRUE

\* the guard of row i (a row without a guard passes)
guard(i, data, st) ==
    CASE i = 1  -> data.stream # NullStream
      [] i = 3  -> st.hasWebGPU /\ st.webcamStream # NullStream
      [] i = 4  -> ~st.hasWebGPU
      [] i = 7  -> st.isVideoReady
      [] i = 11 -> st.runtimeState = "recovering"
      [] OTHER  -> TRUE

\* a mutated default: the payload's recoverAction is taken as it is
recoverActionOr_NoDefault(data, default) == data.recoverAction

\* data.recoverAction || default
recoverActionOr(data, default) ==
    IF data.recoverAction = NoAction THEN default ELSE data.recoverAction

\* the action of row i applied to the state (a row without an action changes nothing)
action(i, data, st) ==
    CASE i = 1  -> [st EXCEPT !.webcamStream = data.stream]
      [] i = 2  -> [st EXCEPT !.error = Some(
                        [code |-> "CAMERA_DENIED",
                         message |-> OrElse(data.message, "Camera access denied"),
                         technical |-> data.technical,
                         recoverAction |-> RetryAction])]
      [] i = 3  -> [st EXCEPT !.loadingPhase = "loading-wgpu"]
      [] i = 5  -> [st EXCEPT !.loadingPhase = "loading-model"]
      [] i = 6  -> [st EXCEPT !.loadingPhase = "warming-up", !.runtimeState = "warming"]
      [] i = 7  -> [st EXCEPT !.loadingPhase = "complete", !.runtimeState = "running"]
      [] i = 8  -> [st EXCEPT !.runtimeState = "paused"]
      [] i = 9  -> [st EXCEPT !.runtimeState = "running"]
      [] i = 10 -> [st EXCEPT !.runtimeState = "recovering",
                              !.error = Some(
                        [code |-> "STREAM_LOST",
                         message |-> OrElse(data.reason, "Camera stream lost"),
                         technical |-> Undefined,
                         recoverAction |-> ReconnectAction])]
      [] i = 11 -> [st EXCEPT !.webcamStream = data.stream,
                              !.runtimeState = "running",
                              !.error = Null]
      [] i = 12 -> [st EXCEPT !.runtimeState = "failed",
                              !.error = Some(
                        [code |-> "MODEL_LOAD_FAILED",
                         message |-> "Failed to load AI model",
                         technical |-> data.error,
                         recoverAction |-> ReloadAction])]
      [] i = 13 -> [st EXCEPT !.runtimeState = "failed",
                              !.error = Some(
                        [code |-> OrElse(data.code, "UNKNOWN_ERROR"),
                         message |-> OrElse(data.message, "An unexpected error occurred"),
                         technical |-> data.technical,
                         recoverAction |-> recoverActionOr(data, ReloadAction)])]
      [] i = 14 -> [st EXCEPT !.error = Null, !.runtimeState = "idle"]
      [] OTHER  -> st

\* a mutated lookup: the source state of a row is ignored
FindTransition_AnyFrom(event, currentState) ==
    LET matching == {i \in DOMAIN transitions : transitions[i].event = event}
    IN  IF matching = {} THEN 0
        ELSE CHOOSE i \in matching : \A j \in matching : i <= j

\* a mutated lookup: the wildcard source matches no state
FindTransition_NoWildcard(event, currentState) ==
    LET matching == {i \in DOMAIN transitions :
                        /\ transitions[i].event = event
                        /\ transitions[i].from = currentState}
    IN  IF matching = {} THEN 0
        ELSE CHOOSE i \in matching : \A j \in matching : i <= j

\* transitions.find(t => t.event === event && (t.from === currentState || t.from === '*')):
\* the index of the first matching row, 0 when there is none
FindTransition(event, currentState) ==
    LET matching == {i \in DOMAIN transitions :
                        /\ transitions[i].event = event
                        /\ (transitions[i].from = currentState \/ transitions[i].from = "*")}
    IN  IF matching = {} THEN 0
        ELSE CHOOSE i \in matching : \A j \in matching : i <= j

\* return false: nothing changes and nothing is emitted
Rejected(st) == [state |-> st, returned |-> FALSE, emitted |-> <<>>]

\* a mutated executor: the action runs but viewState is not advanced
Accepted_NoViewChange(i, data, st) ==
    [state |-> action(i, data, st), returned |-> TRUE, emitted |-> <<"statechange">>]

\* a mutated executor: viewState is advanced but the action's runtimeState is dropped
Accepted_KeepsRuntimeState(i, data, st) ==
    [state |-> [action(i, data, st) EXCEPT !.viewState = transitions[i].to,
                                           !.runtimeState = st.runtimeState],
     returned |-> TRUE,
     emitted |-> <<"statechange">>]

\* the guard passed: run the action, advance viewState, emit 'statechange'
Accepted(i, data, st) ==
    LET acted == action(i, data, st)
        currentState == st.viewState
    IN  [state |-> IF transitions[i].to # currentState
                   THEN [acted EXCEPT !.viewState = transitions[i].to]
                   ELSE acted,
         returned |-> TRUE,
         emitted |-> <<"statechange">>]

\* a mutated dispatch: the guard's verdict is ignored
dispatch_IgnoresGuard(st, event, data) ==
    LET i == FindTransition(event, st.viewState)
    IN  IF i = 0 THEN Rejected(st) ELSE Accepted(i, data, st)

\* dispatch(event, data): the new state, the return value and the DOM events emitted
dispatch(st, event, data) ==
    LET i == FindTransition(event, st.viewState)
    IN  IF i = 0 THEN Rejected(st)
        ELSE IF ~guard(i, data, st) THEN Rejected(st)
        ELSE Accepted(i, data, st)

\* a mutated update: the view is reset along with the field
setState_AltersView(st, ready) ==
    [state |-> [st EXCEPT !.isVideoReady = ready, !.viewState = "permission"],
     returned |-> TRUE,
     emitted |-> <<"statechange">>]

\* setState(updates) with updates = {isVideoReady: ready} (main.js, 'canplay')
setState(st, ready) ==
    [state |-> [st EXCEPT !.isVideoReady = ready],
     returned |-> TRUE,
     emitted |-> <<"statechange">>]

----------------------------------------------------------------------------
(* main.js: the listeners attached to the state machine that touch streams *)

\* a mutated stop: the tracks are left running
StopTracks_Leaves(tr, s) == tr

\* track.stop() on every track of stream s
StopTracks(tr, s) == IF s = NullStream THEN tr ELSE [tr EXCEPT ![s] = "ended"]

\* stateMachine.addEventListener('transition', ...): on RETRY stop the tracks of
\* the stream held in state. It runs for events of type 'transition' only.
TransitionListener(type, eventName, st, tr) ==
    IF type = "transition" /\ eventName = "RETRY"
    THEN StopTracks(tr, st.webcamStream)
    ELSE tr

RECURSIVE Deliver(_, _, _, _)
\* dispatchEvent: every emitted event is delivered to the listeners in order
Deliver(emitted, eventName, st, tr) ==
    IF emitted = <<>> THEN tr
    ELSE Deliver(Tail(emitted), eventName, st,
                 TransitionListener(Head(emitted), eventName, st, tr))

Subscribers == 1..MaxSubscribers

\* no notification has been emitted and none observed
SubsInitial ==
    [made |-> <<>>, seen |-> [k \in Subscribers |-> <<>>],
     sent |-> <<>>, got |-> [k \in Subscribers |-> <<>>]]

\* no call has been made on the state machine
\* the keys and values of a StateManager's state
Keys == {"count", "name"}
Values == {0, 1}
Objects == [Keys -> Values]

\* the objects setState accepts as updates: some of the keys with values
Updates == UNION {[ks -> Values] : ks \in SUBSET Keys}

\* new StateManager({count: 0, name: 0}): no listener, no notification, and
\* this.state is object 1
NewManager ==
    [state |-> [k \in Keys |-> 0], cur |-> 1, objs |-> 1,
     held |-> <<>>, regs |-> <<>>, emitted |-> 0, log |-> <<>>,
     last |-> [op |-> "none", updates |-> <<>>]]

NoCall == [op |-> "none", event |-> "none", data |-> EmptyPayload,
           returned |-> FALSE, emitted |-> <<>>]

\* new StateMachine(initialState), no call made yet, every track live
SMInit(hasWebGPU) ==
    /\ state = InitialState(hasWebGPU)
    /\ lastCall = NoCall
    /\ tracks = [s \in Streams |-> "live"]
    /\ subs = SubsInitial
    /\ mgr = NewManager

\* the steps at which the loading screen's start-up sequence is suspended
LoadSteps == {"start", "loadModel", "warmup", "delay"}

Loops == 1..MaxLoops

\* a capture loop of a captioning view: not running, waiting (for its timer or
\* a sleep) or awaiting runInference; aborted is its signal's flag
\* sleep(2000, signal) after a failed inference, and the updateThrottle of the
\* streaming callback, in milliseconds
COOLDOWN_MS == 2000
UPDATE_THROTTLE_MS == 100
BUSY_WAIT_MS == 500

\* no such moment yet
NoAge == -1

\* the delays getDynamicFrameDelay() may return: one positive delay stands for
\* them
DynamicDelays == {COOLDOWN_MS \div 2}

Min(a, b) == IF a <= b THEN a ELSE b
Max(a, b) == IF a >= b THEN a ELSE b

\* sleep is what remains of the sleep the loop is in; sinceUpdate is
\* now - lastUpdateTime of the running iteration, up to the throttle;
\* failedAgo, shownAgo and reported record the time since the loop last
\* reported a failure, the time since a streamed text of the running inference
\* last reached the live caption, and the reports made for the last inference
NoLoop ==
    [pc |-> "none", aborted |-> FALSE, sleep |-> 0,
     sinceUpdate |-> UPDATE_THROTTLE_MS,
     failedAgo |-> NoAge, shownAgo |-> NoAge, reported |-> 0]

\* setTimeout(captureLoop, 0)
Scheduled == [NoLoop EXCEPT !.pc = "waiting"]

\* the last update of the live caption / the last entry added to the caption
\* history: whether there is one, a streamed partial text or a final result,
\* whether the loop's signal was aborted when it was made, and for a streamed
\* text the time since the previous one of the same inference was shown
NoCaption == [shown |-> FALSE, streaming |-> FALSE, stopped |-> FALSE, gap |-> NoAge]

\* main.js after its top-level code has run: detection pending, hasWebGPU false,
\* the permission dialog mounted by the initial render, no video element yet
AppInitial(gpu) ==
    [gpuSupported |-> gpu,
     hasWebGPU |-> FALSE,
     detecting |-> TRUE,
     mounted |-> "webcam-permission-dialog",
     dialog |-> "requesting",
     dialogStream |-> NullStream,
     startDisabled |-> FALSE,
     canplay |-> "none",
     loads |-> [p \in LoadSteps |-> 0],
     warmedUp |-> FALSE,
     isRunning |-> TRUE,
     controller |-> 0,
     loops |-> [k \in Loops |-> NoLoop],
     lastCaption |-> NoCaption,
     lastHistory |-> NoCaption]

\* String.prototype.includes
includes(s, sub) ==
    \E i \in 1 .. (Len(s) - Len(sub) + 1) : SubSeq(s, i, i + Len(sub) - 1) = sub

\* what getCameraErrorMessage reads of the browser: the user-agent tests for
\* Safari and iOS, and window.isSecureContext
Envs == [isSafari : BOOLEAN, isiOS : BOOLEAN, isSecureContext : BOOLEAN]
DesktopChrome == [isSafari |-> FALSE, isiOS |-> FALSE, isSecureContext |-> TRUE]

\* the errors getUserMedia rejects with: a DOMException name (or none) and a message
PlatformKinds == {"NotAllowedError", "NotFoundError", "NotReadableError",
                  "OverconstrainedError", "SecurityError", "AbortError"}
PlatformErrors ==
    [name : PlatformKinds \cup {"TypeError", ""},
     message : {"", "Permission denied", "Requested device not found",
                "Could not start video source"}]

\* getCameraErrorMessage(error): title, message and technical of the guidance
\* selected (its steps, which are display text only, are left out)
getCameraErrorMessage(error, env) ==
    LET errorName == IF error.name # "" THEN error.name
                     ELSE IF error.message # "" THEN error.message
                     ELSE "Unknown"
    IN  IF errorName = "NotAllowedError" \/ includes(errorName, "Permission denied")
        THEN IF env.isiOS \/ env.isSafari
             THEN [title |-> "Camera Access Denied",
                   message |-> "Safari/iOS detected. To enable camera:",
                   technical |-> "NotAllowedError - User denied permission"]
             ELSE [title |-> "Camera Access Denied",
                   message |-> "Please allow camera access in your browser settings:",
                   technical |-> "NotAllowedError - User denied permission"]
        ELSE IF errorName = "NotFoundError" \/ includes(errorName, "not found")
        THEN [title |-> "No Camera Detected",
              message |-> "No camera was found on your device.",
              technical |-> "NotFoundError - No video input devices detected"]
        ELSE IF errorName = "NotReadableError" \/ includes(errorName, "not readable")
        THEN [title |-> "Camera In Use",
              message |-> "Camera is already being used by another app.",
              technical |-> "NotReadableError - Camera hardware in use"]
        ELSE IF errorName = "OverconstrainedError" \/ includes(errorName, "constraint")
        THEN IF env.isiOS
             THEN [title |-> "Camera Constraints Not Supported",
                   message |-> "iOS detected - trying basic camera mode.",
                   technical |-> "OverconstrainedError - Requested constraints not satisfiable on iOS"]
             ELSE [title |-> "Camera Settings Not Supported",
                   message |-> "Your camera doesn't support the requested settings.",
                   technical |-> "OverconstrainedError - Constraints not satisfiable"]
        ELSE IF errorName = "SecurityError" \/ ~env.isSecureContext
        THEN [title |-> "Insecure Connection",
              message |-> "Camera access requires HTTPS or localhost.",
              technical |-> "SecurityError - Camera requires secure context (HTTPS)"]
        ELSE IF errorName = "AbortError"
        THEN [title |-> "Camera Access Interrupted",
              message |-> "Camera access was interrupted.",
              technical |-> "AbortError - Operation aborted"]
        ELSE [title |-> "Camera Error",
              message |-> "An unexpected error occurred accessing the camera.",
              technical |-> errorName \o ": " \o
                            (IF error.message # "" THEN error.message
                             ELSE "No additional details")]

\* const enrichedError = new Error(errorInfo.message); enrichedError.errorInfo = errorInfo
enrichedError(errorInfo) ==
    [name |-> "Error", message |-> errorInfo.message, errorInfo |-> errorInfo]

\* a requestWebcamPermission call made by a caller of the service: the index of
\* the constraint set whose getUserMedia call is awaited (0 when none is), the
\* getUserMedia calls made so far with their outcomes, how the call settled and
\* the stream it returned
NoRequest == [awaiting |-> 0, log |-> <<>>, settled |-> "none", stream |-> NullStream]

\* the webcam service's module variables; acquired counts the streams handed
\* out by getUserMedia, ended[s] is the 'ended' handler of stream s, lastCb the
\* last message passed to onStreamEndedCallback, delays the backoff delays
\* waited since the counter was last reset, tries[s] the acquisition attempts
\* that the 'ended' handler of stream s has started, handler[s] the 'ended' listener
\* attached to stream s, request and switching the calls in progress, env the
\* browser the page runs in, caught the error getUserMedia last rejected with and
\* thrown the error requestWebcamPermission threw for it (<<>> when none)
CamInitial ==
    [env |-> DesktopChrome,
     caught |-> <<>>,
     thrown |-> <<>>,
     currentStream |-> NullStream,
     autoRecoveryEnabled |-> TRUE,
     recoveryAttempts |-> 0,
     acquired |-> 0,
     ended |-> [s \in Streams |-> "idle"],
     lastCb |-> "none",
     delays |-> <<>>,
     tries |-> [s \in Streams |-> 0],
     handler |-> [s \in Streams |-> "recover"],
     request |-> NoRequest,
     switching |-> FALSE]

AppInit(gpu) ==
    /\ app = AppInitial(gpu)
    /\ cam = CamInitial

----------------------------------------------------------------------------
(* VLMService.runInference *)

Calls == 1..MaxCalls

NoResult == "-"                 \* the call has not settled with a value

\* what TextStreamer has accumulated / what batch_decode returns, before trim()
Texts == {"", " ", "a cat "}

\* String.prototype.trim on the texts above
Trim(t) ==
    CASE t = " " -> ""
      [] t = "a cat " -> "a cat"
      [] OTHER -> t

\* streamed.trim() || batch_decode(...)[0].trim()
FinalText(streamed, decoded) ==
    IF Trim(streamed) # "" THEN Trim(streamed) ELSE Trim(decoded)

\* a call that has not been made
NotCalled == [pc |-> "notCalled", result |-> NoResult, during |-> 0]

\* callers of loadModel, and the loads that can be started in one page life
MaxLoadCallers == 2
MaxLoads == 3
LoadCallers == 1 .. MaxLoadCallers

\* a caller that has no loadModel call outstanding
NotLoading == [pc |-> "idle", awaits |-> 0]

\* the fields loadModel works on: loadPromise is 0 (null) or the number of the
\* load whose promise it is; loads[n] is where the body of load n stands
NewLoader ==
    [isLoaded |-> FALSE, isLoading |-> FALSE, loadPromise |-> 0,
     loads |-> <<>>,
     callers |-> [c \in LoadCallers |-> NotLoading]]

\* new VLMService()
VLMInit ==
    /\ processor = FALSE
    /\ inferenceLock = FALSE
    /\ calls = [c \in Calls |-> NotCalled]
    /\ loader = NewLoader

\* the call that holds the lock, 0 when none does
Holder(cs) ==
    IF \E c \in Calls : cs[c].pc \in {"processing", "generating"}
    THEN CHOOSE c \in Calls : cs[c].pc \in {"processing", "generating"}
    ELSE 0

\* a mutated entry: the lock is not tested before it is taken
runInferenceEnter_NoCheck(lock, loaded, frameOk) ==
    IF ~loaded THEN [lock |-> FALSE, pc |-> "rejected", result |-> NoResult]
    ELSE IF ~frameOk THEN [lock |-> FALSE, pc |-> "rejected", result |-> NoResult]
    ELSE [lock |-> TRUE, pc |-> "processing", result |-> NoResult]

\* a mutated entry: the skipped call releases the lock on its way out
runInferenceEnter_SkipReleases(lock, loaded, frameOk) ==
    IF lock THEN [lock |-> FALSE, pc |-> "resolved", result |-> ""]
    ELSE IF ~loaded THEN [lock |-> FALSE, pc |-> "rejected", result |-> NoResult]
    ELSE IF ~frameOk THEN [lock |-> FALSE, pc |-> "rejected", result |-> NoResult]
    ELSE [lock |-> TRUE, pc |-> "processing", result |-> NoResult]

\* a mutated entry: the throw for a missing model leaves the lock set
runInferenceEnter_ThrowKeepsLock(lock, loaded, frameOk) ==
    IF lock THEN [lock |-> lock, pc |-> "resolved", result |-> ""]
    ELSE IF ~loaded THEN [lock |-> TRUE, pc |-> "rejected", result |-> NoResult]
    ELSE IF ~frameOk THEN [lock |-> FALSE, pc |-> "rejected", result |-> NoResult]
    ELSE [lock |-> TRUE, pc |-> "processing", result |-> NoResult]

\* runInference up to its first await, which runs without interruption:
\* the lock test (return ''), the lock, the loaded test (throw), the frame capture
\* inside try (a throw releases the lock), then  await this.processor(...)
runInferenceEnter(lock, loaded, frameOk) ==
    IF lock THEN [lock |-> lock, pc |-> "resolved", result |-> ""]
    ELSE IF ~loaded THEN [lock |-> FALSE, pc |-> "rejected", result |-> NoResult]
    ELSE IF ~frameOk THEN [lock |-> FALSE, pc |-> "rejected", result |-> NoResult]
    ELSE [lock |-> TRUE, pc |-> "processing", result |-> NoResult]

\* loadModel has set processor and model
LoadModel ==
    /\ ~processor
    /\ processor' = TRUE
    /\ UNCHANGED <<inferenceLock, calls, loader>>
    /\ UNCHANGED <<smVars, appVars, subVars>>

\* a caller calls runInference(video, instruction, onTextUpdate)
RunInference(c) ==
    /\ calls[c].pc = "notCalled"
    /\ \E frameOk \in BOOLEAN :
        \E r \in {runInferenceEnter(inferenceLock, processor, frameOk)} :
            /\ inferenceLock' = r.lock
            /\ calls' = [calls EXCEPT ![c] = [pc |-> r.pc, result |-> r.result,
                                              during |-> Holder(calls)]]
    /\ UNCHANGED <<processor, loader>>
    /\ UNCHANGED <<smVars, appVars, subVars>>

\* await this.processor(rawImg, prompt) settles: the call goes on to generate,
\* or the catch block releases the lock and rethrows
ProcessorSettles(c) ==
    /\ calls[c].pc = "processing"
    /\ \/ /\ calls' = [calls EXCEPT ![c].pc = "generating"]
          /\ UNCHANGED inferenceLock
       \/ /\ calls' = [calls EXCEPT ![c].pc = "rejected"]
          /\ inferenceLock' = FALSE
    /\ UNCHANGED <<processor, loader>>
    /\ UNCHANGED <<smVars, appVars, subVars>>

\* await this.model.generate(...) resolves: release the lock, return finalText
GenerateResolves(c) ==
    /\ calls[c].pc = "generating"
    /\ \E streamed \in Texts, decoded \in Texts :
        calls' = [calls EXCEPT ![c].pc = "resolved",
                               ![c].result = FinalText(streamed, decoded)]
    /\ inferenceLock' = FALSE
    /\ UNCHANGED <<processor, loader>>
    /\ UNCHANGED <<smVars, appVars, subVars>>

\* await this.model.generate(...) rejects: the catch block releases the lock
GenerateRejects(c) ==
    /\ calls[c].pc = "generating"
    /\ calls' = [calls EXCEPT ![c].pc = "rejected"]
    /\ inferenceLock' = FALSE
    /\ UNCHANGED <<processor, loader>>
    /\ UNCHANGED <<smVars, appVars, subVars>>

\* the settled call's promise has been consumed; the slot serves a later call
Forget(c) ==
    /\ calls[c].pc \in {"resolved", "rejected"}
    /\ \A d \in Calls : calls[d].during # c
    /\ calls' = [calls EXCEPT ![c] = NotCalled]
    /\ UNCHANGED <<processor, inferenceLock, loader>>
    /\ UNCHANGED <<smVars, appVars, subVars>>

VLMNext ==
    \/ LoadModel
    \/ \E c \in Calls : RunInference(c)
    \/ \E c \in Calls : ProcessorSettles(c)
    \/ \E c \in Calls : GenerateResolves(c)
    \/ \E c \in Calls : GenerateRejects(c)
    \/ \E c \in Calls : Forget(c)

\* the service called by any callers at any time (the capture loops of
\* captioning-view.js among them), the state machine left alone
InitVLM == SMInit(TRUE) /\ VLMInit /\ AppInit(TRUE)

SpecVLM == InitVLM /\ [][VLMNext]_vars

----------------------------------------------------------------------------
(* VLMService.loadModel *)

\* the loads whose body is suspended at one of its awaits
Running(l) == {n \in 1 .. Len(l.loads) : l.loads[n] \in {"detect", "processor", "model"}}

\* a mutated entry: the in-progress promise is not consulted
loadModelEnter_IgnoresPromise(l) ==
    IF l.isLoaded THEN [loader |-> l, promise |-> 0]
    ELSE [loader |-> [l EXCEPT !.isLoading = TRUE,
                               !.loadPromise = Len(l.loads) + 1,
                               !.loads = Append(l.loads, "detect")],
          promise |-> Len(l.loads) + 1]

\* loadModel up to its return: nothing to do when loaded (promise 0: the call
\* returns at once), the in-progress promise when there is one, otherwise
\* isLoading is set and a new body runs up to  await webgpuDetector.detect()
loadModelEnter(l) ==
    IF l.isLoaded THEN [loader |-> l, promise |-> 0]
    ELSE IF l.loadPromise # 0 THEN [loader |-> l, promise |-> l.loadPromise]
    ELSE [loader |-> [l EXCEPT !.isLoading = TRUE,
                               !.loadPromise = Len(l.loads) + 1,
                               !.loads = Append(l.loads, "detect")],
          promise |-> Len(l.loads) + 1]

\* the body of load n ends: isLoaded is set on success, the catch block rethrows
\* on failure, and the finally block clears isLoading and loadPromise
ended(l, n, ok) ==
    [l EXCEPT !.loads[n] = IF ok THEN "fulfilled" ELSE "rejected",
              !.isLoaded = IF ok THEN TRUE ELSE @,
              !.isLoading = FALSE,
              !.loadPromise = 0]

\* a caller calls  await vlmService.loadModel(onProgress)
LoadModelCalled(c) ==
    /\ loader.callers[c].pc = "idle"
    /\ \E r \in {loadModelEnter(loader)} :
        /\ Len(r.loader.loads) <= MaxLoads
        /\ loader' = [r.loader EXCEPT !.callers[c] =
                        IF r.promise = 0 THEN [pc |-> "returned", awaits |-> 0]
                        ELSE [pc |-> "awaiting", awaits |-> r.promise]]
    /\ UNCHANGED <<processor, inferenceLock, calls>>
    /\ UNCHANGED <<smVars, appVars, subVars>>

\* webgpuDetector.detect() settles: WebGPU is supported and the processor is
\* requested, or the body throws
LoadDetects(n, ok) ==
    /\ n \in 1 .. Len(loader.loads)
    /\ loader.loads[n] = "detect"
    /\ loader' = IF ok THEN [loader EXCEPT !.loads[n] = "processor"]
                 ELSE ended(loader, n, FALSE)
    /\ UNCHANGED <<processor, inferenceLock, calls>>
    /\ UNCHANGED <<smVars, appVars, subVars>>

\* AutoProcessor.from_pretrained settles: the model is requested, or the body throws
ProcessorLoaded(n, ok) ==
    /\ n \in 1 .. Len(loader.loads)
    /\ loader.loads[n] = "processor"
    /\ loader' = IF ok THEN [loader EXCEPT !.loads[n] = "model"]
                 ELSE ended(loader, n, FALSE)
    /\ UNCHANGED <<processor, inferenceLock, calls>>
    /\ UNCHANGED <<smVars, appVars, subVars>>

\* AutoModelForImageTextToText.from_pretrained settles: processor and model are
\* both set and the load has succeeded, or the body throws
ModelLoaded(n, ok) ==
    /\ n \in 1 .. Len(loader.loads)
    /\ loader.loads[n] = "model"
    /\ loader' = ended(loader, n, ok)
    /\ processor' = (processor \/ ok)
    /\ UNCHANGED <<inferenceLock, calls>>
    /\ UNCHANGED <<smVars, appVars, subVars>>

\* the promise a caller awaits has settled: its await returns or throws
LoadAwaited(c) ==
    /\ loader.callers[c].pc = "awaiting"
    /\ loader.loads[loader.callers[c].awaits] \in {"fulfilled", "rejected"}
    /\ loader' = [loader EXCEPT !.callers[c].pc =
                    IF loader.loads[loader.callers[c].awaits] = "fulfilled"
                    THEN "returned" ELSE "threw"]
    /\ UNCHANGED <<processor, inferenceLock, calls>>
    /\ UNCHANGED <<smVars, appVars, subVars>>

\* the caller has dealt with the outcome and may call again
LoadForget(c) ==
    /\ loader.callers[c].pc \in {"returned", "threw"}
    /\ loader' = [loader EXCEPT !.callers[c] = NotLoading]
    /\ UNCHANGED <<processor, inferenceLock, calls>>
    /\ UNCHANGED <<smVars, appVars, subVars>>

NextLoader ==
    \/ \E c \in LoadCallers : LoadModelCalled(c)
    \/ \E n \in 1 .. MaxLoads, ok \in BOOLEAN : LoadDetects(n, ok)
    \/ \E n \in 1 .. MaxLoads, ok \in BOOLEAN : ProcessorLoaded(n, ok)
    \/ \E n \in 1 .. MaxLoads, ok \in BOOLEAN : ModelLoaded(n, ok)
    \/ \E c \in LoadCallers : LoadAwaited(c)
    \/ \E c \in LoadCallers : LoadForget(c)

\* loadModel called by any callers at any time
SpecLoader == InitVLM /\ [][NextLoader]_vars

----------------------------------------------------------------------------
(* The state machine driven by any caller *)

Init ==
    /\ \E w \in BOOLEAN : SMInit(w)
    /\ VLMInit
    /\ AppInit(TRUE)

Dispatch(event, data) ==
    \E r \in {dispatch(state, event, data)} :
        /\ state' = r.state
        /\ lastCall' = [op |-> "dispatch", event |-> event, data |-> data,
                        returned |-> r.returned, emitted |-> r.emitted]
        /\ tracks' = Deliver(r.emitted, event, r.state, tracks)
        /\ UNCHANGED <<vlmVars, appVars, subVars>>

SetState(ready) ==
    \E r \in {setState(state, ready)} :
        /\ state' = r.state
        /\ lastCall' = [op |-> "setState", event |-> "none", data |-> EmptyPayload,
                        returned |-> r.returned, emitted |-> r.emitted]
        /\ tracks' = Deliver(r.emitted, "none", r.state, tracks)
        /\ UNCHANGED <<vlmVars, appVars, subVars>>

\* the platform ends a live track (camera unplugged, permission revoked)
TrackEnds(s) ==
    /\ tracks[s] = "live"
    /\ tracks' = [tracks EXCEPT ![s] = "ended"]
    /\ UNCHANGED <<state, lastCall>>
    /\ UNCHANGED <<vlmVars, appVars, subVars>>

Next ==
    \/ \E event \in Events, data \in Payloads : Dispatch(event, data)
    \/ \E ready \in BOOLEAN : SetState(ready)

Spec == Init /\ [][Next]_vars

\* the same machine with the platform ending tracks at any time
NextStreams ==
    \/ \E event \in Events, data \in Payloads : Dispatch(event, data)
    \/ \E ready \in BOOLEAN : SetState(ready)
    \/ \E s \in Streams : TrackEnds(s)

SpecStreams == Init /\ [][NextStreams]_vars

----------------------------------------------------------------------------
(* The application composed by main.js: the state machine, the components  *)
(* render mounts and the webcam service's recovery                         *)

MAX_RECOVERY_ATTEMPTS == 3
BACKOFF_BASE_MS == 1000
BACKOFF_CEILING_MS == 8000

\* a mutated backoff: the exponent is the attempt number itself
backoffDelay_Doubled(n) ==
    IF BACKOFF_BASE_MS * 2^n < BACKOFF_CEILING_MS
    THEN BACKOFF_BASE_MS * 2^n
    ELSE BACKOFF_CEILING_MS

\* Math.min(1000 * Math.pow(2, recoveryAttempts - 1), 8000), recoveryAttempts = n
backoffDelay(n) ==
    IF BACKOFF_BASE_MS * 2^(n - 1) < BACKOFF_CEILING_MS
    THEN BACKOFF_BASE_MS * 2^(n - 1)
    ELSE BACKOFF_CEILING_MS

\* recoveryAttempts++ and the backoff delay computed from it
countAttempt(c) ==
    [c EXCEPT !.recoveryAttempts = @ + 1,
              !.delays = Append(@, backoffDelay(c.recoveryAttempts + 1))]

\* the loading screens whose start-up sequence has not finished
LiveLoads(a) ==
    a.loads["start"] + a.loads["loadModel"] + a.loads["warmup"] + a.loads["delay"]

\* a start-up sequence moves from one step to the next, or ends
MoveLoad(a, from, to) == [a EXCEPT !.loads[from] = @ - 1, !.loads[to] = @ + 1]
EndLoad(a, from) == [a EXCEPT !.loads[from] = @ - 1]

\* a mutated switch: a state with an error is shown on the error screen
mountedBy_ErrorFirst(st) ==
    IF st.error # Null THEN "error-screen" ELSE "captioning-view"

\* render's switch (viewState): the component created for the view
mountedBy(st) ==
    CASE st.viewState = "permission" -> "webcam-permission-dialog"
      [] st.viewState = "welcome" -> "welcome-screen"
      [] st.viewState = "loading" -> "loading-screen"
      [] st.viewState = "runtime" -> "captioning-view"
      [] st.viewState = "error" -> "error-screen"
      [] st.viewState = "image-upload" -> "image-upload"

\* a mutated abort: the signal is left as it is
abort_Nothing(a, k) == a

\* abortController.abort() on the controller of loop k (0: there is none): a
\* loop waiting in a sleep leaves at once, a loop awaiting runInference finds
\* its signal aborted when the inference has settled
abort(a, k) ==
    IF k = 0 THEN a
    ELSE IF a.loops[k].pc = "inferring" THEN [a EXCEPT !.loops[k].aborted = TRUE]
    ELSE [a EXCEPT !.loops[k] = NoLoop]

\* startCaptioningLoop(): abort the previous controller, create a new one and,
\* when the model is loaded, schedule captureLoop
startCaptioningLoop(a, isLoaded) ==
    LET b == abort(a, a.controller)
        free == {k \in Loops : b.loops[k].pc = "none"}
    IN  IF free = {} \/ ~isLoaded THEN [b EXCEPT !.controller = 0]
        ELSE LET k == CHOOSE k \in free : \A j \in free : k <= j
             IN  [b EXCEPT !.controller = k,
                           !.loops[k] = Scheduled]

\* container.cleanup of the captioning view: abort the loop's controller
cleanup(a) ==
    IF a.mounted = "captioning-view"
    THEN [abort(a, a.controller) EXCEPT !.controller = 0]
    ELSE a

\* a mutated render: a loading screen that is mounted is left as it is
render_KeepsLoadingScreen(st, a) ==
    LET c == cleanup(a)
        w == IF st.webcamStream # NullStream /\ c.canplay = "none"
             THEN [c EXCEPT !.canplay = "armed"]
             ELSE c
        v == [w EXCEPT !.mounted = mountedBy(st)]
    IN  CASE st.viewState = "permission" ->
                [v EXCEPT !.dialog = "requesting", !.dialogStream = NullStream]
          [] st.viewState = "welcome" -> [v EXCEPT !.startDisabled = FALSE]
          [] st.viewState = "loading" ->
                IF LiveLoads(v) < MaxLoadScreens /\ a.mounted # "loading-screen"
                THEN [v EXCEPT !.loads["start"] = @ + 1]
                ELSE v
          [] st.viewState = "runtime" ->
                startCaptioningLoop([v EXCEPT !.isRunning = TRUE], processor)
          [] OTHER -> v

\* render(state): clean up the mounted component, create the video element
\* when a stream is held (its 'canplay' listener is armed once), then mount the
\* component of the view
render(st, a) ==
    LET c == cleanup(a)
        w == IF st.webcamStream # NullStream /\ c.canplay = "none"
             THEN [c EXCEPT !.canplay = "armed"]
             ELSE c
        v == [w EXCEPT !.mounted = mountedBy(st)]
    IN  CASE st.viewState = "permission" ->
                [v EXCEPT !.dialog = "requesting", !.dialogStream = NullStream]
          [] st.viewState = "welcome" -> [v EXCEPT !.startDisabled = FALSE]
          [] st.viewState = "loading" ->
                IF LiveLoads(v) < MaxLoadScreens
                THEN [v EXCEPT !.loads["start"] = @ + 1]
                ELSE v
          [] st.viewState = "runtime" ->
                startCaptioningLoop([v EXCEPT !.isRunning = TRUE], processor)
          [] OTHER -> v

\* stateMachine.addEventListener('statechange', event => render(event.detail.state))
StateChangeListener(emitted, st, a) ==
    IF \E k \in DOMAIN emitted : emitted[k] = "statechange"
    THEN render(st, a)
    ELSE a

\* the outcome r of a call on the state machine made by the application, with
\* the listeners of main.js run on what it emitted
Applied(r, op, event, data, a, c, tr) ==
    /\ state' = r.state
    /\ lastCall' = [op |-> op, event |-> event, data |-> data,
                    returned |-> r.returned, emitted |-> r.emitted]
    /\ tracks' = Deliver(r.emitted, event, r.state, tr)
    /\ app' = StateChangeListener(r.emitted, r.state, a)
    /\ cam' = c

AppDispatch(event, data, a, c, tr) ==
    \E r \in {dispatch(state, event, data)} :
        Applied(r, "dispatch", event, data, a, c, tr)

\* onStreamEnded(errorMessage => dispatch('STREAM_ENDED', {reason: errorMessage || ...}))
StreamEndedCallback(errorMessage, a, c, tr) ==
    AppDispatch("STREAM_ENDED",
                [EmptyPayload EXCEPT !.reason =
                    OrElse(errorMessage,
                           "The camera was disconnected or access was revoked.")],
                a, c, tr)

\* webgpuDetector.detect() settles: hasWebGPU = gpuInfo.supported
DetectSettles ==
    /\ app.detecting
    /\ app' = [app EXCEPT !.hasWebGPU = app.gpuSupported, !.detecting = FALSE]
    /\ UNCHANGED <<subVars, smVars, vlmVars, cam>>

\* the permission dialog's requestWebcamPermission() resolves with a new stream
DialogAcquires ==
    /\ app.dialog = "requesting"
    /\ cam.acquired < MaxStreams
    /\ app' = [app EXCEPT !.dialog = "acquired", !.dialogStream = cam.acquired + 1]
    /\ cam' = [cam EXCEPT !.currentStream = cam.acquired + 1,
                          !.recoveryAttempts = 0,
                          !.delays = <<>>,
                          !.acquired = cam.acquired + 1]
    /\ UNCHANGED <<subVars, smVars, vlmVars>>

\* the dialog hands the stream over: dispatch('PERMISSION_GRANTED', {stream})
DialogGranted ==
    /\ app.dialog = "acquired"
    /\ AppDispatch("PERMISSION_GRANTED",
                   [EmptyPayload EXCEPT !.stream = app.dialogStream],
                   [app EXCEPT !.dialog = "done"], cam, tracks)
    /\ UNCHANGED <<vlmVars, subVars>>

\* the dialog's request fails: dispatch('PERMISSION_DENIED', {message, technical})
DialogFails ==
    /\ app.dialog = "requesting"
    /\ AppDispatch("PERMISSION_DENIED",
                   [EmptyPayload EXCEPT !.message = "msg", !.technical = "tech"],
                   [app EXCEPT !.dialog = "done"], cam, tracks)
    /\ UNCHANGED <<vlmVars, subVars>>

\* the Start button: it disables itself, then main.js dispatches START when its
\* module variable hasWebGPU is true and START_FALLBACK otherwise
PressStart ==
    /\ state.viewState = "welcome"
    /\ ~app.startDisabled
    /\ AppDispatch(IF app.hasWebGPU THEN "START" ELSE "START_FALLBACK",
                   EmptyPayload,
                   [app EXCEPT !.startDisabled = TRUE], cam, tracks)
    /\ UNCHANGED <<vlmVars, subVars>>

\* the 'canplay' listener (once): setState({isVideoReady: true})
CanPlay ==
    /\ app.canplay = "armed"
    /\ \E r \in {setState(state, TRUE)} :
        Applied(r, "setState", "none", EmptyPayload,
                [app EXCEPT !.canplay = "fired"], cam, tracks)
    /\ UNCHANGED <<vlmVars, subVars>>

\* onError of the loading screen: dispatch('MODEL_FAILED', {error: error.message})
ModelFailed(a) ==
    AppDispatch("MODEL_FAILED", [EmptyPayload EXCEPT !.error = "load error"],
                a, cam, tracks)

\* the loading screen's start-up sequence begins: without navigator.gpu it
\* reports the error and ends, otherwise it dispatches WGPU_READY and awaits
\* loadModel
LoadStart ==
    /\ app.loads["start"] > 0
    /\ IF ~app.gpuSupported
       THEN ModelFailed(EndLoad(app, "start"))
       ELSE AppDispatch("WGPU_READY", EmptyPayload,
                        MoveLoad(app, "start", "loadModel"), cam, tracks)
    /\ UNCHANGED <<vlmVars, subVars>>

\* await vlmService.loadModel(...) settles: MODEL_LOADED is dispatched and the
\* warm-up awaited, or the catch block reports the error
LoadModelSettles(ok) ==
    /\ app.loads["loadModel"] > 0
    /\ IF ok
       THEN /\ processor' = TRUE
            /\ AppDispatch("MODEL_LOADED", EmptyPayload,
                           MoveLoad(app, "loadModel", "warmup"), cam, tracks)
       ELSE /\ ~processor
            /\ processor' = processor
            /\ ModelFailed(EndLoad(app, "loadModel"))
    /\ UNCHANGED <<inferenceLock, calls, loader, subVars>>

\* await vlmService.performWarmup() settles: WARMUP_COMPLETE is dispatched and
\* the 800 ms delay awaited, or the catch block reports the error
WarmupSettles(ok) ==
    /\ app.loads["warmup"] > 0
    /\ IF ok
       THEN AppDispatch("WARMUP_COMPLETE", EmptyPayload,
                        MoveLoad([app EXCEPT !.warmedUp = TRUE],
                                 "warmup", "delay"), cam, tracks)
       ELSE ModelFailed(EndLoad(app, "warmup"))
    /\ UNCHANGED <<vlmVars, subVars>>

\* the delay elapses: onComplete dispatches WARMUP_COMPLETE once more
DelayElapses ==
    /\ app.loads["delay"] > 0
    /\ AppDispatch("WARMUP_COMPLETE", EmptyPayload, EndLoad(app, "delay"), cam, tracks)
    /\ UNCHANGED <<vlmVars, subVars>>

\* setAutoRecovery(enabled)
SetAutoRecovery(enabled) ==
    /\ cam' = [cam EXCEPT !.autoRecoveryEnabled = enabled]
    /\ UNCHANGED <<subVars, smVars, vlmVars, app>>

\* the track of an acquired stream ends and its 'ended' handler runs
\* attemptAutoRecovery up to its first await: with recovery disabled or
\* exhausted it returns false and the handler calls back at once, otherwise the
\* attempt is counted and the backoff awaited
AppTrackEnds(s) ==
    /\ s <= cam.acquired
    /\ tracks[s] = "live"
    /\ cam.ended[s] = "idle"
    /\ cam.handler[s] = "recover"
    /\ IF ~cam.autoRecoveryEnabled \/ cam.recoveryAttempts >= MAX_RECOVERY_ATTEMPTS
       THEN StreamEndedCallback("Camera disconnected and auto-recovery failed", app,
                                [cam EXCEPT !.ended[s] = "done", !.lastCb = "failed"],
                                [tracks EXCEPT ![s] = "ended"])
       ELSE /\ cam' = [countAttempt(cam) EXCEPT !.ended[s] = "waiting",
                                                !.tries[s] = @ + 1]
            /\ tracks' = [tracks EXCEPT ![s] = "ended"]
            /\ UNCHANGED <<state, lastCall, app>>
    /\ UNCHANGED <<vlmVars, subVars>>

\* after the backoff requestWebcamPermission() resolves with a new stream: the
\* counter is reset, attemptAutoRecovery returns true and the handler calls back
\* with 'Camera reconnected'
RecoveryAcquires(s) ==
    /\ cam.ended[s] = "waiting"
    /\ cam.acquired < MaxStreams
    /\ StreamEndedCallback("Camera reconnected", app,
                           [cam EXCEPT !.currentStream = cam.acquired + 1,
                                       !.recoveryAttempts = 0,
                                       !.delays = <<>>,
                                       !.acquired = cam.acquired + 1,
                                       !.ended[s] = "done",
                                       !.lastCb = "reconnected"],
                           tracks)
    /\ UNCHANGED <<vlmVars, subVars>>

\* after the backoff requestWebcamPermission() rejects: below the limit
\* attemptAutoRecovery calls itself (which counts the next attempt unless recovery
\* has been disabled meanwhile), otherwise it returns false and the handler
\* calls back
RecoveryFails(s) ==
    /\ cam.ended[s] = "waiting"
    /\ IF cam.recoveryAttempts < MAX_RECOVERY_ATTEMPTS /\ cam.autoRecoveryEnabled
       THEN /\ cam' = [countAttempt(cam) EXCEPT !.tries[s] = @ + 1]
            /\ UNCHANGED <<smVars, app>>
       ELSE StreamEndedCallback("Camera disconnected and auto-recovery failed", app,
                                [cam EXCEPT !.ended[s] = "done", !.lastCb = "failed"],
                                tracks)
    /\ UNCHANGED <<vlmVars, subVars>>

\* the pause / resume button of the captioning view: pausing aborts the loop's
\* controller and drops it, resuming starts a new loop
ToggleCapture ==
    /\ app.mounted = "captioning-view"
    /\ app' = IF app.isRunning
              THEN [abort(app, app.controller) EXCEPT !.isRunning = FALSE,
                                                      !.controller = 0]
              ELSE startCaptioningLoop([app EXCEPT !.isRunning = TRUE], processor)
    /\ UNCHANGED <<subVars, smVars, vlmVars, cam>>

\* a mutated backpressure check: the loop never finds the service busy
busy_Never(lock) == FALSE

\* if (vlmService.inferenceLock)
busy(lock) == lock

\* an iteration of captureLoop with the video ready and an inference running:
\* the frame is skipped, await sleep(500, signal)
LoopSkipsFrame(k) ==
    /\ app.loops[k].pc = "waiting"
    /\ app.loops[k].sleep = 0
    /\ busy(inferenceLock)
    /\ app' = [app EXCEPT !.loops[k].sleep = BUSY_WAIT_MS]
    /\ UNCHANGED <<subVars, smVars, vlmVars, cam>>

\* an iteration of captureLoop with the video ready and no inference running:
\* it calls runInference and awaits it
LoopIterates(k) ==
    /\ app.loops[k].pc = "waiting"
    /\ app.loops[k].sleep = 0
    /\ ~busy(inferenceLock)
    /\ calls[k].pc = "notCalled"
    /\ \E frameOk \in BOOLEAN :
        \E r \in {runInferenceEnter(inferenceLock, processor, frameOk)} :
            /\ inferenceLock' = r.lock
            /\ calls' = [calls EXCEPT ![k] = [pc |-> r.pc, result |-> r.result,
                                              during |-> Holder(calls)]]
    /\ app' = [app EXCEPT !.loops[k] =
                    [Scheduled EXCEPT !.pc = "inferring",
                                      !.failedAgo = app.loops[k].failedAgo]]
    /\ UNCHANGED <<subVars, smVars, processor, loader, cam>>

\* a mutated callback: every streamed text is shown
throttled_Never(lp) == FALSE

\* if (now - lastUpdateTime >= updateThrottle) fails
throttled(lp) == lp.sinceUpdate < UPDATE_THROTTLE_MS

\* the streamer calls onTextUpdate during generation: unless throttled, the
\* live caption is updated with the streamed text and lastUpdateTime = now
TokenStreamed(k) ==
    /\ app.loops[k].pc = "inferring"
    /\ calls[k].pc = "generating"
    /\ ~throttled(app.loops[k])
    /\ app' = [app EXCEPT !.lastCaption = [shown |-> TRUE, streaming |-> TRUE,
                                           stopped |-> app.loops[k].aborted,
                                           gap |-> app.loops[k].shownAgo],
                          !.loops[k].sinceUpdate = 0,
                          !.loops[k].shownAgo = 0]
    /\ UNCHANGED <<subVars, smVars, vlmVars, cam>>

\* if (result && !signal.aborted)
shows(call, lp) == call.pc = "resolved" /\ call.result # "" /\ ~lp.aborted

\* a mutated error branch: the loop goes on without waiting
afterFailure_NoCooldown(lp) ==
    [Scheduled EXCEPT !.failedAgo = 0, !.reported = lp.reported + 1]

\* catch (error) with the signal not aborted: showError(message), then
\* await sleep(2000, signal)
afterFailure(lp) ==
    [Scheduled EXCEPT !.sleep = COOLDOWN_MS, !.failedAgo = 0,
                      !.reported = lp.reported + 1]

\* await runInference(...) has settled. Resolved: a result is shown and added
\* to the history unless it is empty or the signal is aborted, then the loop
\* sleeps for the dynamic delay. Rejected: the error branch. With its signal
\* aborted the loop does neither and leaves.
LoopResumes(k) ==
    /\ app.loops[k].pc = "inferring"
    /\ calls[k].pc \in {"resolved", "rejected"}
    /\ \E made \in {[shown |-> TRUE, streaming |-> FALSE,
                      stopped |-> app.loops[k].aborted, gap |-> NoAge]} :
       \E delay \in IF calls[k].pc = "resolved" /\ ~app.loops[k].aborted
                    THEN DynamicDelays ELSE {0} :
        app' = [app EXCEPT
                    !.lastCaption = IF shows(calls[k], app.loops[k]) THEN made ELSE @,
                    !.lastHistory = IF shows(calls[k], app.loops[k]) THEN made ELSE @,
                    !.loops[k] = IF app.loops[k].aborted
                                 THEN NoLoop
                                 ELSE IF calls[k].pc = "rejected"
                                 THEN afterFailure(app.loops[k])
                                 ELSE [Scheduled EXCEPT !.sleep = delay]]
    /\ calls' = [calls EXCEPT ![k] = NotCalled]
    /\ UNCHANGED <<subVars, smVars, processor, inferenceLock, loader, cam>>

\* d milliseconds on a loop's timers
elapsed(lp, d) ==
    [lp EXCEPT !.sleep = Max(0, @ - d),
               !.sinceUpdate = IF lp.pc = "inferring"
                               THEN Min(UPDATE_THROTTLE_MS, @ + d) ELSE @,
               !.shownAgo = IF @ = NoAge THEN @ ELSE Min(UPDATE_THROTTLE_MS, @ + d),
               !.failedAgo = IF @ = NoAge THEN @ ELSE Min(COOLDOWN_MS, @ + d)]

\* d milliseconds pass
TimePasses(d) ==
    /\ app' = [app EXCEPT !.loops = [k \in Loops |-> elapsed(app.loops[k], d)]]
    /\ app' # app
    /\ UNCHANGED <<subVars, smVars, vlmVars, cam>>

\* the error screen's recover button runs errorState.recoverAction.handler():
\* the handlers that dispatch (the one that reloads is PressReload)
PressRecover ==
    /\ state.viewState = "error"
    /\ state.error # Null
    /\ state.error[1].recoverAction.handler \in {"dispatch:RETRY", "dispatch:RETRY_STREAM"}
    /\ AppDispatch(IF state.error[1].recoverAction.handler = "dispatch:RETRY"
                   THEN "RETRY" ELSE "RETRY_STREAM",
                   EmptyPayload, app, cam, tracks)
    /\ UNCHANGED <<vlmVars, subVars>>

\* window.location.reload(), from the error screen's Reload button or from a
\* recover action: the page starts again
PressReload ==
    /\ state.viewState = "error"
    /\ state' = InitialState(TRUE)
    /\ lastCall' = NoCall
    /\ tracks' = [s \in Streams |-> "live"]
    /\ processor' = FALSE
    /\ inferenceLock' = FALSE
    /\ calls' = [c \in Calls |-> NotCalled]
    /\ loader' = NewLoader
    /\ app' = AppInitial(app.gpuSupported)
    /\ cam' = CamInitial
    /\ subs' = SubsInitial
    /\ mgr' = NewManager

NextApp ==
    \/ DetectSettles
    \/ DialogAcquires
    \/ DialogGranted
    \/ DialogFails
    \/ PressStart
    \/ CanPlay
    \/ LoadStart
    \/ \E ok \in BOOLEAN : LoadModelSettles(ok)
    \/ \E ok \in BOOLEAN : WarmupSettles(ok)
    \/ DelayElapses
    \/ \E enabled \in BOOLEAN : SetAutoRecovery(enabled)
    \/ \E s \in Streams : AppTrackEnds(s)
    \/ \E s \in Streams : RecoveryAcquires(s)
    \/ \E s \in Streams : RecoveryFails(s)
    \/ PressRecover
    \/ PressReload

\* new StateMachine({..., hasWebGPU: true, ...}) on a platform with or without WebGPU
InitApp ==
    /\ SMInit(TRUE)
    /\ VLMInit
    /\ \E gpu \in BOOLEAN : AppInit(gpu)

SpecApp == InitApp /\ [][NextApp]_vars

\* the application with its pending work done in the end: a promise awaited by
\* the loading screen settles, its 800 ms timer fires, and the video element
\* that was given a stream reports 'canplay'
SpecAppFair ==
    /\ SpecApp
    /\ WF_vars(LoadStart)
    /\ WF_vars(\E ok \in BOOLEAN : LoadModelSettles(ok))
    /\ WF_vars(\E ok \in BOOLEAN : WarmupSettles(ok))
    /\ WF_vars(DelayElapses)
    /\ WF_vars(CanPlay)

----------------------------------------------------------------------------
(* The captioning view: the application from the moment the runtime view   *)
(* is first mounted, with the steps of its capture loop and of the         *)
(* inferences it starts (SpecApp leaves these steps out: they change       *)
(* neither the state machine nor the webcam service)                       *)

\* the application when warm-up has completed and the loading screens have
\* finished: stream 1 is held and playing, the model is loaded, the captioning
\* view is mounted and its first capture loop scheduled
RuntimeMounted ==
    /\ state = [InitialState(TRUE) EXCEPT !.viewState = "runtime",
                                          !.runtimeState = "running",
                                          !.loadingPhase = "complete",
                                          !.webcamStream = 1,
                                          !.isVideoReady = TRUE]
    /\ tracks = [s \in Streams |-> "live"]
    /\ processor = TRUE
    /\ inferenceLock = FALSE
    /\ calls = [c \in Calls |-> NotCalled]
    /\ loader = [NewLoader EXCEPT !.isLoaded = TRUE, !.loads = <<"fulfilled">>]
    /\ app = [AppInitial(TRUE) EXCEPT !.hasWebGPU = TRUE,
                                      !.detecting = FALSE,
                                      !.mounted = "captioning-view",
                                      !.dialog = "done",
                                      !.dialogStream = 1,
                                      !.startDisabled = TRUE,
                                      !.canplay = "fired",
                                      !.warmedUp = TRUE,
                                      !.controller = 1,
                                      !.loops[1] = Scheduled]
    /\ cam = [CamInitial EXCEPT !.currentStream = 1, !.acquired = 1]

InitLoop ==
    /\ RuntimeMounted
    /\ lastCall = NoCall
    /\ subs = SubsInitial
    /\ mgr = NewManager

NextLoop ==
    \/ ToggleCapture
    \/ \E k \in Loops : LoopSkipsFrame(k)
    \/ \E k \in Loops : LoopIterates(k)
    \/ \E k \in Loops : TokenStreamed(k)
    \/ \E k \in Loops : LoopResumes(k)
    \/ \E k \in Loops : ProcessorSettles(k)
    \/ \E k \in Loops : GenerateResolves(k)
    \/ \E k \in Loops : GenerateRejects(k)
    \/ \E s \in Streams : AppTrackEnds(s)
    \/ \E s \in Streams : RecoveryAcquires(s)
    \/ \E s \in Streams : RecoveryFails(s)
    \/ TimePasses(COOLDOWN_MS \div 2)

SpecLoop == InitLoop /\ [][NextLoop]_vars

\* the captioning view with a camera that stays connected
NextCooldown ==
    \/ ToggleCapture
    \/ \E k \in Loops : LoopSkipsFrame(k)
    \/ \E k \in Loops : LoopIterates(k)
    \/ \E k \in Loops : TokenStreamed(k)
    \/ \E k \in Loops : LoopResumes(k)
    \/ \E k \in Loops : ProcessorSettles(k)
    \/ \E k \in Loops : GenerateResolves(k)
    \/ \E k \in Loops : GenerateRejects(k)
    \/ TimePasses(COOLDOWN_MS \div 2)

SpecCooldown == InitLoop /\ [][NextCooldown]_vars

\* the captioning view paused, resumed and re-mounted (every notification of
\* the state machine renders it again), with loops whose sleeps do not end
NextRemount ==
    \/ ToggleCapture
    \/ \E k \in Loops : LoopSkipsFrame(k)
    \/ \E k \in Loops : LoopIterates(k)
    \/ \E k \in Loops : LoopResumes(k)
    \/ \E k \in Loops : ProcessorSettles(k)
    \/ \E k \in Loops : GenerateResolves(k)
    \/ \E k \in Loops : GenerateRejects(k)
    \/ \E s \in Streams : AppTrackEnds(s)
    \/ \E s \in Streams : RecoveryAcquires(s)
    \/ \E s \in Streams : RecoveryFails(s)

SpecRemount == InitLoop /\ [][NextRemount]_vars

\* the capture loop alone, with time passing in steps of half the throttle
NextThrottle ==
    \/ \E k \in Loops : LoopIterates(k)
    \/ \E k \in Loops : TokenStreamed(k)
    \/ \E k \in Loops : LoopResumes(k)
    \/ \E k \in Loops : ProcessorSettles(k)
    \/ \E k \in Loops : GenerateResolves(k)
    \/ \E k \in Loops : GenerateRejects(k)
    \/ TimePasses(UPDATE_THROTTLE_MS \div 2)

SpecThrottle == InitLoop /\ [][NextThrottle]_vars

----------------------------------------------------------------------------
(* The webcam service called by any caller, with main.js's callback        *)
(* registered                                                              *)

\* the constraint sets of requestWebcamPermission in the order it tries them:
\* getCameraConstraints(), {video: {facingMode}}, {video: true}
constraintSets == <<"ideal+facingMode", "facingMode", "any">>

\* a mutated fallback: the most basic constraints are never tried
afterRejection_NoBasic(i) == IF i < 2 THEN i + 1 ELSE 0

\* the catch blocks around getUserMedia: a rejection of set i leads to set i+1,
\* and the rejection of the last set is thrown (0)
afterRejection(i) == IF i < Len(constraintSets) THEN i + 1 ELSE 0

\* a getUserMedia call with constraint set i has been made
called(i) == [constraints |-> constraintSets[i], outcome |-> "pending"]

\* the outcome of the pending (last) getUserMedia call is recorded
outcome(log, o) == [log EXCEPT ![Len(log)].outcome = o]

\* track.stop() on the tracks of currentStream, currentStream = null
stopStream(c) == [c EXCEPT !.currentStream = NullStream]

\* a caller calls requestWebcamPermission(): getUserMedia with the first set
RequestWebcamPermission ==
    /\ cam.request.settled = "none"
    /\ cam.request.awaiting = 0
    /\ cam' = [cam EXCEPT !.request = [NoRequest EXCEPT !.awaiting = 1,
                                                        !.log = <<called(1)>>]]
    /\ UNCHANGED <<subVars, smVars, vlmVars, app>>

\* the awaited getUserMedia call resolves: the 'ended' listeners are attached,
\* currentStream is set, the counter is reset and the stream is returned
GetUserMediaResolves ==
    /\ cam.request.awaiting > 0
    /\ cam.acquired < MaxStreams
    /\ cam' = [cam EXCEPT !.currentStream = cam.acquired + 1,
                          !.recoveryAttempts = 0,
                          !.delays = <<>>,
                          !.acquired = cam.acquired + 1,
                          !.handler[cam.acquired + 1] = "recover",
                          !.request = [awaiting |-> 0,
                                       log |-> outcome(cam.request.log, "resolved"),
                                       settled |-> "resolved",
                                       stream |-> cam.acquired + 1]]
    /\ UNCHANGED <<subVars, smVars, vlmVars, app>>

\* the awaited getUserMedia call rejects: the next set is tried, or the error
\* of the last set is thrown to the caller
GetUserMediaRejects ==
    /\ cam.request.awaiting > 0
    /\ \E next \in {afterRejection(cam.request.awaiting)} :
        cam' = [cam EXCEPT !.request =
                    IF next = 0
                    THEN [awaiting |-> 0,
                          log |-> outcome(cam.request.log, "rejected"),
                          settled |-> "rejected",
                          stream |-> NullStream]
                    ELSE [awaiting |-> next,
                          log |-> Append(outcome(cam.request.log, "rejected"),
                                         called(next)),
                          settled |-> "none",
                          stream |-> NullStream]]
    /\ UNCHANGED <<subVars, smVars, vlmVars, app>>

\* the caller has taken the stream or the error of its settled request
RequestConsumed ==
    /\ cam.request.settled # "none"
    /\ cam' = [cam EXCEPT !.request = NoRequest]
    /\ UNCHANGED <<subVars, smVars, vlmVars, app>>

\* a caller calls stopStream()
StopStream ==
    /\ cam.currentStream # NullStream
    /\ tracks' = StopTracks(tracks, cam.currentStream)
    /\ cam' = stopStream(cam)
    /\ UNCHANGED <<subVars, state, lastCall, vlmVars, app>>

\* a caller calls switchCamera(deviceId): stopStream(), then getUserMedia is awaited
SwitchCamera ==
    /\ ~cam.switching
    /\ tracks' = StopTracks(tracks, cam.currentStream)
    /\ cam' = [stopStream(cam) EXCEPT !.switching = TRUE]
    /\ UNCHANGED <<subVars, state, lastCall, vlmVars, app>>

\* switchCamera's getUserMedia resolves: its own 'ended' listener is attached
\* and currentStream is set
SwitchCameraResolves ==
    /\ cam.switching
    /\ cam.acquired < MaxStreams
    /\ cam' = [cam EXCEPT !.currentStream = cam.acquired + 1,
                          !.acquired = cam.acquired + 1,
                          !.handler[cam.acquired + 1] = "notify",
                          !.switching = FALSE]
    /\ UNCHANGED <<subVars, smVars, vlmVars, app>>

\* switchCamera's getUserMedia rejects: 'Failed to switch camera' is thrown
SwitchCameraRejects ==
    /\ cam.switching
    /\ cam' = [cam EXCEPT !.switching = FALSE]
    /\ UNCHANGED <<subVars, smVars, vlmVars, app>>

\* the track of a stream acquired by switchCamera ends: its listener calls back
\* without attempting recovery
SwitchedTrackEnds(s) ==
    /\ s <= cam.acquired
    /\ tracks[s] = "live"
    /\ cam.ended[s] = "idle"
    /\ cam.handler[s] = "notify"
    /\ StreamEndedCallback("Camera disconnected or access was revoked", app,
                           [cam EXCEPT !.ended[s] = "done", !.lastCb = "ended"],
                           [tracks EXCEPT ![s] = "ended"])
    /\ UNCHANGED <<vlmVars, subVars>>

NextCam ==
    \/ RequestWebcamPermission
    \/ GetUserMediaResolves
    \/ GetUserMediaRejects
    \/ RequestConsumed
    \/ StopStream
    \/ SwitchCamera
    \/ SwitchCameraResolves
    \/ SwitchCameraRejects
    \/ \E enabled \in BOOLEAN : SetAutoRecovery(enabled)
    \/ \E s \in Streams : AppTrackEnds(s)
    \/ \E s \in Streams : SwitchedTrackEnds(s)
    \/ \E s \in Streams : RecoveryAcquires(s)
    \/ \E s \in Streams : RecoveryFails(s)

\* the service's module variables as initialised, main.js constructed
InitCam ==
    /\ SMInit(TRUE)
    /\ VLMInit
    /\ AppInit(TRUE)

SpecCam == InitCam /\ [][NextCam]_vars

\* requestWebcamPermission()'s last getUserMedia call rejects with error: the
\* catch block classifies it and throws the enriched error
RequestThrows(error) ==
    /\ app.dialog = "requesting"
    /\ cam.thrown = <<>>
    /\ cam' = [cam EXCEPT !.caught = <<error>>,
                          !.thrown = <<enrichedError(
                                        getCameraErrorMessage(error, cam.env))>>]
    /\ UNCHANGED <<subVars, smVars, vlmVars, app>>

\* the permission dialog's error callback in render, given the error thrown:
\* dispatch('PERMISSION_DENIED', {message, technical}) of its classification
PermissionFailed ==
    /\ app.dialog = "requesting"
    /\ cam.thrown # <<>>
    /\ \E errorInfo \in {getCameraErrorMessage(cam.thrown[1], cam.env)} :
        AppDispatch("PERMISSION_DENIED",
                    [EmptyPayload EXCEPT !.message = errorInfo.message,
                                         !.technical = errorInfo.technical],
                    [app EXCEPT !.dialog = "done"], cam, tracks)
    /\ UNCHANGED <<vlmVars, subVars>>

NextDenied ==
    \/ \E error \in PlatformErrors : RequestThrows(error)
    \/ PermissionFailed

\* the page opened in any browser, the camera request failing in any way
InitDenied ==
    /\ SMInit(TRUE)
    /\ VLMInit
    /\ app = AppInitial(TRUE)
    /\ \E env \in Envs : cam = [CamInitial EXCEPT !.env = env]

SpecDenied == InitDenied /\ [][NextDenied]_vars

----------------------------------------------------------------------------
(* The state machine with subscribers, one of which may call it back while *)
(* it handles a notification                                               *)

\* what a subscriber does while it handles a notification: nothing (by = 0), or
\* subscriber `by` calls dispatch(event, data) or setState
NoReaction == [by |-> 0, op |-> "none", event |-> "none", data |-> EmptyPayload]

Reactions ==
    {NoReaction}
    \cup [by : Subscribers, op : {"dispatch"}, event : Events, data : {EmptyPayload}]
    \cup [by : Subscribers, op : {"setState"}, event : {"none"}, data : {EmptyPayload}]

\* the call that emitted a notification: its operation, the object it was given
\* as isVideoReady by setState, the state it left and the state it found
Sent(op, ready, r, prev) ==
    [op |-> op, ready |-> ready, state |-> r.state, prevState |-> prev]

\* callback(event.detail): listener k reads detail.state and detail.prevState
\* of notification n; detail.state is an object, detail.prevState a copy
listened(k, n, detail, prev, sb) ==
    [sb EXCEPT !.seen[k] = Append(@, n),
               !.got[k] = Append(@, [n |-> n, state |-> detail,
                                     prevState |-> prev])]

RECURSIVE notifyRest(_, _, _, _, _)
\* dispatchEvent(statechange n): the listeners k, k+1, ... added by subscribe()
\* are called in the order they were added; none of them calls back
notifyRest(k, n, detail, prev, sb) ==
    IF k > MaxSubscribers THEN sb
    ELSE notifyRest(k + 1, n, detail, prev, listened(k, n, detail, prev, sb))

\* the call a listener makes while it is running: it runs to completion, its
\* notification included, before the listener returns. dispatch changes the
\* fields of this.state, which is the object the detail of the notification
\* being handled refers to; setState replaces this.state by a new object
nested(w, react) ==
    LET r == IF react.op = "dispatch"
             THEN dispatch(w.state, react.event, react.data)
             ELSE setState(w.state, TRUE)
        n == Len(w.subs.made) + 1
    IN  IF r.emitted = <<>> THEN w
        ELSE [w EXCEPT
                !.state = r.state,
                !.detail = IF react.op = "dispatch" THEN r.state ELSE @,
                !.subs = notifyRest(1, n, r.state, w.state,
                            [w.subs EXCEPT
                                !.made = Append(@, n),
                                !.sent = Append(@, Sent(react.op, TRUE, r,
                                                        w.state))])]

RECURSIVE notify(_, _, _, _)
\* dispatchEvent(statechange n): the listeners k, k+1, ... are called in the
\* order they were added; listener react.by calls the state machine back
notify(k, n, w, react) ==
    IF k > MaxSubscribers THEN w
    ELSE LET heard == [w EXCEPT !.subs = listened(k, n, w.detail, w.prev, @)]
         IN  notify(k + 1, n,
                    IF react.by = k THEN nested(heard, react) ELSE heard,
                    react)

\* the outcome r of a call made from outside any listener
Notified(r, op, event, data, ready, react) ==
    /\ lastCall' = [op |-> op, event |-> event, data |-> data,
                    returned |-> r.returned, emitted |-> r.emitted]
    /\ tracks' = Deliver(r.emitted, event, r.state, tracks)
    /\ IF r.emitted = <<>>
       THEN state' = r.state /\ subs' = subs
       ELSE \E w \in {notify(1, Len(subs.made) + 1,
                             [state |-> r.state,
                              detail |-> r.state,
                              prev |-> state,
                              subs |-> [subs EXCEPT
                                    !.made = Append(@, Len(subs.made) + 1),
                                    !.sent = Append(@, Sent(op, ready, r,
                                                            state))]],
                             react)} :
                state' = w.state /\ subs' = w.subs
    /\ UNCHANGED <<vlmVars, appVars, mgr>>

SubscribedDispatch(event, data, react) ==
    /\ Len(subs.made) + 2 <= MaxNotifications
    /\ \E r \in {dispatch(state, event, data)} :
        Notified(r, "dispatch", event, data, FALSE, react)

SubscribedSetState(ready, react) ==
    /\ Len(subs.made) + 2 <= MaxNotifications
    /\ \E r \in {setState(state, ready)} :
        Notified(r, "setState", "none", EmptyPayload, ready, react)

NextSubs ==
    \/ \E event \in Events, data \in {EmptyPayload, FullPayload}, react \in Reactions :
            SubscribedDispatch(event, data, react)
    \/ \E ready \in BOOLEAN, react \in Reactions : SubscribedSetState(ready, react)

\* new StateMachine(...), then subscribe() called MaxSubscribers times
InitSubs ==
    /\ SMInit(TRUE)
    /\ VLMInit
    /\ AppInit(TRUE)

SpecSubs == InitSubs /\ [][NextSubs]_vars

----------------------------------------------------------------------------
(* StateManager (utils/state-manager.js) called by any caller, with        *)
(* subscribers that may call it back while they are notified. The          *)
(* StateMachine's getState and subscribe have the same code.               *)

\* a mutated getState: the live object is returned
getState_Live(m) == [ref |-> m.cur, vals |-> m.state]

\* getState(): { ...this.state }, a new object with the fields of this.state
getState(m) == [ref |-> m.objs + 1, vals |-> m.state]

\* { ...this.state, ...updates }
merge(obj, updates) ==
    [k \in Keys |-> IF k \in DOMAIN updates THEN updates[k] ELSE obj[k]]

\* a mutated comparison: every call counts as a change
hasChanges_Always(obj, updates) == TRUE

\* Object.keys(updates).some(key => this.state[key] !== updates[key])
hasChanges(obj, updates) == \E k \in DOMAIN updates : obj[k] # updates[k]

\* setState with changes, up to its dispatchEvent: prevState and newState are
\* new objects and this.state = newState
assigned(m, updates) ==
    [m EXCEPT !.state = merge(m.state, updates),
              !.cur = m.objs + 2,
              !.objs = m.objs + 2,
              !.emitted = m.emitted + 1]

\* subscribe(callback): a listener added after the notifications emitted so far
Registered(m) == [since |-> m.emitted, removed |-> FALSE, until |-> NoAge, by |-> 0]

\* the disposer of listener r, called by listener by (0: by no listener):
\* removeEventListener, after the notifications emitted so far
disposed(m, r, by) ==
    IF m.regs[r].removed THEN m
    ELSE [m EXCEPT !.regs[r].removed = TRUE,
                   !.regs[r].until = m.emitted,
                   !.regs[r].by = by]

\* what a listener does while it is notified: nothing, call a disposer, or
\* call setState
NoManagerReaction == [by |-> 0, op |-> "none", target |-> 0, updates |-> <<>>]

ManagerReactions ==
    {NoManagerReaction}
    \cup [by : 1..MaxListeners, op : {"dispose"}, target : 1..MaxListeners,
          updates : {<<>>}]
    \cup [by : 1..MaxListeners, op : {"setState"}, target : {0},
          updates : [{"count"} -> Values]]

\* a mutated dispatch: removed listeners are still called
skipped_Never(reg) == FALSE

\* dispatchEvent passes over a listener that has been removed
skipped(reg) == reg.removed

\* listener k is called with the detail of notification n
heard(m, k, n, detail) ==
    [m EXCEPT !.log = Append(@, [n |-> n, to |-> k, state |-> detail.state,
                                 prevState |-> detail.prevState])]

RECURSIVE deliverRest(_, _, _, _, _)
\* dispatchEvent(statechange n) to the listeners k..last in the order they
\* were added; none of them calls back
deliverRest(k, n, detail, last, m) ==
    IF k > last THEN m
    ELSE deliverRest(k + 1, n, detail, last,
                     IF skipped(m.regs[k]) THEN m ELSE heard(m, k, n, detail))

\* the call a listener makes while it is notified
reacted(m, react) ==
    CASE react.op = "dispose" -> disposed(m, react.target, react.by)
      [] react.op = "setState" ->
            IF ~hasChanges(m.state, react.updates) THEN m
            ELSE LET a == assigned(m, react.updates)
                 IN  deliverRest(1, a.emitted,
                                 [state |-> a.state, prevState |-> m.state],
                                 Len(a.regs), a)
      [] OTHER -> m

RECURSIVE deliver(_, _, _, _, _, _)
\* dispatchEvent(statechange n) to the listeners k..last in the order they
\* were added; listener react.by calls back as react says
deliver(k, n, detail, last, m, react) ==
    IF k > last THEN m
    ELSE IF skipped(m.regs[k]) THEN deliver(k + 1, n, detail, last, m, react)
    ELSE LET h == heard(m, k, n, detail)
         IN  deliver(k + 1, n, detail, last,
                     IF react.by = k THEN reacted(h, react) ELSE h, react)

\* the last call made from outside any listener
Called(op, updates) == [op |-> op, updates |-> updates]

\* const s = manager.getState()
ManagerGetState ==
    /\ Len(mgr.held) < MaxHeld
    /\ \E o \in {getState(mgr)} :
        mgr' = [mgr EXCEPT !.held = Append(@, o),
                           !.objs = Max(@, o.ref),
                           !.last = Called("getState", <<>>)]
    /\ UNCHANGED <<smVars, vlmVars, appVars, subs>>

\* s[key] = value on an object that getState returned: every reference to
\* that object shows the new value
ManagerAssign(i, key, value) ==
    /\ i \in DOMAIN mgr.held
    /\ mgr' = [mgr EXCEPT
                !.held = [j \in DOMAIN mgr.held |->
                            IF mgr.held[j].ref = mgr.held[i].ref
                            THEN [mgr.held[j] EXCEPT !.vals[key] = value]
                            ELSE mgr.held[j]],
                !.state = IF mgr.held[i].ref = mgr.cur
                          THEN [@ EXCEPT ![key] = value] ELSE @,
                !.last = Called("assign", <<>>)]
    /\ UNCHANGED <<smVars, vlmVars, appVars, subs>>

\* manager.subscribe(callback)
ManagerSubscribe ==
    /\ Len(mgr.regs) < MaxListeners
    /\ mgr' = [mgr EXCEPT !.regs = Append(@, Registered(mgr)),
                          !.last = Called("subscribe", <<>>)]
    /\ UNCHANGED <<smVars, vlmVars, appVars, subs>>

\* the function subscribe returned for listener r is called
ManagerUnsubscribe(r) ==
    /\ r \in DOMAIN mgr.regs
    /\ mgr' = [disposed(mgr, r, 0) EXCEPT
                !.last = Called("unsubscribe", <<>>)]
    /\ UNCHANGED <<smVars, vlmVars, appVars, subs>>

\* manager.setState(updates), with what a listener does when the call
\* notifies it
ManagerSetState(updates, react) ==
    /\ mgr.emitted + (IF react.op = "setState" THEN 2 ELSE 1) <= MaxEmitted
    /\ react.by <= Len(mgr.regs)
    /\ react.target <= Len(mgr.regs)
    /\ \E done \in {IF ~hasChanges(mgr.state, updates) THEN mgr
                     ELSE LET a == assigned(mgr, updates)
                          IN  deliver(1, a.emitted,
                                      [state |-> a.state, prevState |-> mgr.state],
                                      Len(a.regs), a, react)} :
        mgr' = [done EXCEPT !.last = Called("setState", updates)]
    /\ UNCHANGED <<smVars, vlmVars, appVars, subs>>

\* the manager with its subscribers
NextManager ==
    \/ ManagerSubscribe
    \/ \E r \in 1..MaxListeners : ManagerUnsubscribe(r)
    \/ \E updates \in Updates, react \in ManagerReactions :
            ManagerSetState(updates, react)

\* new StateManager({count: 0, name: 0})
InitManager ==
    /\ SMInit(TRUE)
    /\ VLMInit
    /\ AppInit(TRUE)

SpecManager == InitManager /\ [][NextManager]_vars

\* the manager with callers that keep and change what getState returned, and
\* subscribers that do not call back
NextCopies ==
    \/ ManagerGetState
    \/ \E i \in 1..MaxHeld, key \in Keys, value \in Values : ManagerAssign(i, key, value)
    \/ mgr.regs = <<>> /\ ManagerSubscribe
    \/ \E updates \in Updates : ManagerSetState(updates, NoManagerReaction)

SpecCopies == InitManager /\ [][NextCopies]_vars

----------------------------------------------------------------------------
(* Properties of the state machine *)

\* the call made by the step into the primed state is a dispatch
Dispatched == lastCall'.op = "dispatch"

\* C2: error is non-null iff viewState is 'error' or runtimeState is
\* 'recovering' or 'failed'
C2_ErrorPresence ==
    (state.error # Null) <=>
        (state.viewState = "error" \/ state.runtimeState \in {"recovering", "failed"})

\* C3: when the stream held in state is replaced by a different stream, the track
\* of the stream held before is stopped at the moment of replacement
C3_StreamOwnership ==
    [][(state.webcamStream # NullStream /\ state'.webcamStream # state.webcamStream)
        => tracks'[state.webcamStream] = "ended"]_vars

\* The transition table as the specification prints it (CAPABILITY_READY is the
\* code's WGPU_READY, loading-capability its loading-wgpu): source, destination
TableFrom(event) ==
    CASE event \in {"PERMISSION_GRANTED", "PERMISSION_DENIED"} -> "permission"
      [] event \in {"START", "START_FALLBACK"} -> "welcome"
      [] event \in {"WGPU_READY", "MODEL_LOADED", "WARMUP_COMPLETE", "MODEL_FAILED"} -> "loading"
      [] event \in {"PAUSE", "RESUME", "STREAM_ENDED", "STREAM_RECOVERED"} -> "runtime"
      [] event = "FATAL_ERROR" -> "any"
      [] event = "RETRY" -> "error"
      [] OTHER -> "none"

TableTo(event) ==
    CASE event = "PERMISSION_GRANTED" -> "welcome"
      [] event \in {"PERMISSION_DENIED", "MODEL_FAILED", "FATAL_ERROR"} -> "error"
      [] event = "START" -> "loading"
      [] event = "START_FALLBACK" -> "image-upload"
      [] event \in {"WGPU_READY", "MODEL_LOADED"} -> "loading"
      [] event = "WARMUP_COMPLETE" -> "runtime"
      [] event \in {"PAUSE", "RESUME", "STREAM_ENDED", "STREAM_RECOVERED"} -> "runtime"
      [] event = "RETRY" -> "permission"
      [] OTHER -> "none"

TableGuard(event, data, st) ==
    CASE event = "PERMISSION_GRANTED" -> data.stream # NullStream
      [] event = "START" -> st.hasWebGPU /\ st.webcamStream # NullStream
      [] event = "START_FALLBACK" -> ~st.hasWebGPU
      [] event = "WARMUP_COMPLETE" -> st.isVideoReady
      [] event = "STREAM_RECOVERED" -> st.runtimeState = "recovering"
      [] OTHER -> TRUE

\* the fields other than viewState and error after the row's action
TableFields(event, data, st) ==
    CASE event = "PERMISSION_GRANTED" -> [st EXCEPT !.webcamStream = data.stream]
      [] event = "START" -> [st EXCEPT !.loadingPhase = "loading-wgpu"]
      [] event = "WGPU_READY" -> [st EXCEPT !.loadingPhase = "loading-model"]
      [] event = "MODEL_LOADED" ->
            [st EXCEPT !.loadingPhase = "warming-up", !.runtimeState = "warming"]
      [] event = "WARMUP_COMPLETE" ->
            [st EXCEPT !.loadingPhase = "complete", !.runtimeState = "running"]
      [] event = "PAUSE" -> [st EXCEPT !.runtimeState = "paused"]
      [] event = "RESUME" -> [st EXCEPT !.runtimeState = "running"]
      [] event = "STREAM_ENDED" -> [st EXCEPT !.runtimeState = "recovering"]
      [] event = "STREAM_RECOVERED" ->
            [st EXCEPT !.webcamStream = data.stream, !.runtimeState = "running"]
      [] event \in {"MODEL_FAILED", "FATAL_ERROR"} -> [st EXCEPT !.runtimeState = "failed"]
      [] event = "RETRY" -> [st EXCEPT !.runtimeState = "idle"]
      [] OTHER -> st

HasCode(err, code) == err # Null /\ err[1].code = code

\* the error after the row's action
TableError(event, data, st, err) ==
    CASE event = "PERMISSION_DENIED" ->
            HasCode(err, "CAMERA_DENIED") /\ err[1].recoverAction = RetryAction
      [] event = "STREAM_ENDED" -> HasCode(err, "STREAM_LOST")
      [] event = "MODEL_FAILED" -> HasCode(err, "MODEL_LOAD_FAILED")
      [] event = "FATAL_ERROR" -> HasCode(err, OrElse(data.code, "UNKNOWN_ERROR"))
      [] event \in {"STREAM_RECOVERED", "RETRY"} -> err = Null
      [] OTHER -> err = st.error

WithoutViewAndError(st) == [st EXCEPT !.viewState = "-", !.error = Null]

\* C4: dispatching a row's event from the row's source state (any state for
\* FATAL_ERROR) with the row's guard true returns true, moves viewState to the
\* row's destination, applies the row's updates and leaves the other fields alone
C4_TransitionTable ==
    [][(/\ Dispatched
        /\ TableFrom(lastCall'.event) \in {state.viewState, "any"}
        /\ TableGuard(lastCall'.event, lastCall'.data, state))
        => (/\ lastCall'.returned
            /\ state'.viewState = TableTo(lastCall'.event)
            /\ WithoutViewAndError(state') =
                    WithoutViewAndError(TableFields(lastCall'.event, lastCall'.data, state))
            /\ TableError(lastCall'.event, lastCall'.data, state, state'.error))]_vars

\* a row with a guard and an action has been applied
C4_Witness ==
    /\ lastCall.op = "dispatch" /\ lastCall.event = "STREAM_RECOVERED"
    /\ lastCall.returned
    /\ state.runtimeState = "running" /\ state.webcamStream = lastCall.data.stream

\* no row of the table has this event with this source state or the wildcard
NoRow(event, viewState) ==
    ~ \E i \in DOMAIN transitions :
        transitions[i].event = event /\ transitions[i].from \in {viewState, "*"}

\* C5: a dispatch without a matching row returns false, changes no field and
\* emits no notification
C5_NoMatchNoOp ==
    [][(Dispatched /\ NoRow(lastCall'.event, state.viewState))
        => (/\ ~lastCall'.returned
            /\ state' = state
            /\ tracks' = tracks
            /\ lastCall'.emitted = <<>>)]_vars

\* an event the table knows, dispatched from a state it has no row for, after
\* the machine has left its initial state
C5_Witness ==
    /\ lastCall.op = "dispatch" /\ lastCall.event = "PAUSE"
    /\ state.viewState = "welcome"
    /\ ~lastCall.returned /\ lastCall.emitted = <<>>

\* the guard of the row matching the dispatch is false
GuardFails(event, data, st) ==
    LET i == FindTransition(event, st.viewState)
    IN  i # 0 /\ ~guard(i, data, st)

\* C6: a dispatch whose matching row's guard is false returns false, runs no
\* action, changes no field and emits no notification
C6_GuardRejects ==
    [][(Dispatched /\ GuardFails(lastCall'.event, lastCall'.data, state))
        => (/\ ~lastCall'.returned
            /\ state' = state
            /\ tracks' = tracks
            /\ lastCall'.emitted = <<>>)]_vars

\* WARMUP_COMPLETE was dispatched in 'loading' before the video was ready
C6_Witness ==
    /\ lastCall.op = "dispatch" /\ lastCall.event = "WARMUP_COMPLETE"
    /\ state.viewState = "loading" /\ ~state.isVideoReady
    /\ ~lastCall.returned

\* C7: START from 'welcome' without WebGPU returns false and stays in 'welcome';
\* 'loading' is entered only with WebGPU and a camera stream
C7_StartGuard ==
    [][/\ (Dispatched /\ lastCall'.event = "START"
            /\ state.viewState = "welcome" /\ ~state.hasWebGPU)
            => (~lastCall'.returned /\ state'.viewState = "welcome")
       /\ (state'.viewState = "loading" /\ state.viewState # "loading")
            => (state.hasWebGPU /\ state.webcamStream # NullStream)]_vars

\* START was dispatched in 'welcome' with a stream but without WebGPU
C7_Witness ==
    /\ lastCall.op = "dispatch" /\ lastCall.event = "START"
    /\ state.viewState = "welcome" /\ ~state.hasWebGPU
    /\ state.webcamStream # NullStream
    /\ ~lastCall.returned

----------------------------------------------------------------------------
(* Properties of the inference service *)

\* the call has set inferenceLock and has not released it yet
InFlight(c) == calls[c].pc \in {"processing", "generating"}

\* C1: at most one inference is in flight at any instant, and the lock is held
\* exactly while one is
C1_SingleFlight ==
    /\ Cardinality({c \in Calls : InFlight(c)}) <= 1
    /\ inferenceLock <=> (\E c \in Calls : InFlight(c))

\* a second call has been made while an inference is in flight
C1_Witness ==
    \E a, b \in Calls : a # b /\ InFlight(a) /\ calls[b].during = a

\* call b was made in this step while call a was in flight
SecondCall(a, b) ==
    /\ a # b /\ InFlight(a)
    /\ calls[b].pc = "notCalled" /\ calls'[b].pc # "notCalled"

\* C9 as claimed: of two overlapping calls the first resolves with a non-empty
\* result and the second with the empty string, so exactly one result is non-empty
C9_ExactlyOneNonEmpty ==
    \A a, b \in Calls :
        (calls[b].during = a /\ calls[a].pc \in {"resolved", "rejected"})
            => (/\ calls[a].pc = "resolved" /\ calls[a].result # ""
                /\ calls[b].pc = "resolved" /\ calls[b].result = "")

\* C9 amended: a call made while another is in flight resolves in the same step
\* with the empty string, leaving inferenceLock and the first call as they are;
\* the first call settles afterwards on its own, releasing the lock and, when it
\* resolves, returning the model's trimmed text; a skipped call's result stays
\* empty, so at most one of the two results is non-empty
C9_SecondCallSkipped ==
    [][\A a, b \in Calls :
        /\ SecondCall(a, b)
            => (/\ calls'[b].pc = "resolved" /\ calls'[b].result = ""
                /\ inferenceLock' = inferenceLock
                /\ calls'[a] = calls[a])
        /\ (InFlight(a) /\ calls'[a].pc \in {"resolved", "rejected"})
            => (/\ ~inferenceLock'
                /\ calls'[a].pc = "resolved"
                        => calls'[a].result \in {Trim(t) : t \in Texts}
                /\ calls'[a].pc = "rejected" => calls'[a].result = NoResult)
        /\ calls'[b].during = a
            => (calls'[b].pc = "resolved" /\ calls'[b].result = "")]_vars

\* the second call returned '' and the first then resolved with the text
C9_Witness ==
    \E a, b \in Calls :
        /\ calls[b].during = a /\ calls[b].pc = "resolved" /\ calls[b].result = ""
        /\ calls[a].pc = "resolved" /\ calls[a].result = "a cat"

----------------------------------------------------------------------------
(* Properties of the composed application *)

\* the Start button has been pressed in this step
StartPressed == ~app.startDisabled /\ app'.startDisabled

\* C8: once detection has reported that WebGPU is not supported, pressing Start
\* on the welcome screen moves the application to 'image-upload'
C8_FallbackOnStart ==
    [][(/\ StartPressed
        /\ ~app.detecting /\ ~app.gpuSupported
        /\ state.viewState = "welcome")
        => state'.viewState = "image-upload"]_vars

\* C10: STREAM_ENDED is dispatched for the terminal notification only; a
\* successful recovery dispatches no STREAM_ENDED and leaves no STREAM_LOST error
C10_StreamEndedOnlyTerminal ==
    /\ (lastCall.op = "dispatch" /\ lastCall.event = "STREAM_ENDED")
            => lastCall.data.reason # "Camera reconnected"
    /\ ~(/\ state.runtimeState = "recovering"
         /\ HasCode(state.error, "STREAM_LOST")
         /\ state.error[1].message = "Camera reconnected")

----------------------------------------------------------------------------
(* Further properties of the state machine *)

\* C16: whenever error is non-null it carries a recoverAction with a label and
\* a handler
C16_ErrorHasRecoverAction ==
    state.error # Null =>
        /\ state.error[1].recoverAction # NoAction
        /\ state.error[1].recoverAction.label # Undefined
        /\ state.error[1].recoverAction.handler # Undefined

\* FATAL_ERROR was dispatched without a recoverAction and the error carries the
\* default one
C16_Witness ==
    /\ lastCall.op = "dispatch" /\ lastCall.event = "FATAL_ERROR"
    /\ lastCall.data.recoverAction = NoAction
    /\ state.error # Null /\ state.error[1].recoverAction = ReloadAction

\* C17: FATAL_ERROR is accepted from every viewState and runtimeState and leads
\* to viewState 'error', runtimeState 'failed' and an error whose code is the
\* payload's code, or UNKNOWN_ERROR when the payload has none
C17_FatalErrorFromAnywhere ==
    [][(Dispatched /\ lastCall'.event = "FATAL_ERROR")
        => (/\ lastCall'.returned
            /\ state'.viewState = "error"
            /\ state'.runtimeState = "failed"
            /\ state'.error # Null
            /\ state'.error[1].code =
                    (IF lastCall'.data.code = Undefined
                     THEN "UNKNOWN_ERROR" ELSE lastCall'.data.code))]_vars

\* FATAL_ERROR without a code was dispatched after warm-up had completed
C17_Witness ==
    /\ lastCall.op = "dispatch" /\ lastCall.event = "FATAL_ERROR"
    /\ lastCall.data.code = Undefined /\ lastCall.returned
    /\ state.loadingPhase = "complete"
    /\ state.viewState = "error" /\ HasCode(state.error, "UNKNOWN_ERROR")

\* C19: viewState changes only in an accepted dispatch, to the destination of a
\* row of the table for the dispatched event and the current view; setState
\* never changes it
C19_ViewStateOnlyByDispatch ==
    [][/\ state'.viewState # state.viewState
            => (/\ Dispatched /\ lastCall'.returned
                /\ \E i \in DOMAIN transitions :
                    /\ transitions[i].event = lastCall'.event
                    /\ transitions[i].from \in {state.viewState, "*"}
                    /\ transitions[i].to = state'.viewState)
       /\ lastCall'.op = "setState" => state'.viewState = state.viewState]_vars

\* setState was called in the 'loading' view and the view is still 'loading'
C19_Witness ==
    /\ lastCall.op = "setState"
    /\ state.viewState = "loading" /\ state.isVideoReady

\* what a dispatch does to the view: whether it is accepted, and the viewState
\* after it
Outcome(st, event, data) ==
    LET r == dispatch(st, event, data)
    IN  [accepted |-> r.returned, to |-> r.state.viewState]

\* C24 as stated: a dispatch from the state reached by a setState call, which
\* has the same viewState, has the same outcome as the same dispatch from the
\* state before the call
C24_SameViewSameOutcome ==
    \A event \in Events, data \in Payloads, ready \in BOOLEAN :
        Outcome(setState(state, ready).state, event, data) = Outcome(state, event, data)

\* C24: the outcome of a dispatch is that of the same dispatch from any state
\* with the same viewState, runtimeState, hasWebGPU, webcamStream and
\* isVideoReady, whatever its loadingPhase and error are
C24_SameStateSameOutcome ==
    \A event \in Events, data \in {EmptyPayload, FullPayload} :
        \E here \in {Outcome(state, event, data)} :
            \A phase \in LoadingPhases,
               err \in {Null, action(2, EmptyPayload, state).error} :
                Outcome([state EXCEPT !.loadingPhase = phase, !.error = err],
                        event, data) = here

\* a guarded dispatch has been rejected in a view from which the same
\* dispatch is accepted once isVideoReady is set
C24_Witness ==
    /\ lastCall.op = "dispatch" /\ lastCall.event = "WARMUP_COMPLETE"
    /\ ~lastCall.returned
    /\ state.viewState = "loading" /\ ~state.isVideoReady
    /\ Outcome(setState(state, TRUE).state, "WARMUP_COMPLETE", lastCall.data).accepted

----------------------------------------------------------------------------
(* Further properties of the composed application *)

\* STREAM_ENDED is dispatched in this step in the 'runtime' view and accepted
StreamEndedAccepted ==
    /\ Dispatched /\ lastCall'.event = "STREAM_ENDED" /\ lastCall'.returned
    /\ state.viewState = "runtime"

C14_InferenceOnlyWhileRunning ==
    [][\A c \in Calls :
        (calls[c].pc = "notCalled" /\ calls'[c].pc # "notCalled")
            => (state.viewState = "runtime" /\ state.runtimeState = "running")]_vars

\* C15: no update of the live caption and no entry of the caption history is
\* made by a loop whose signal has been aborted
C15_DiscardAfterStop ==
    /\ ~app.lastCaption.stopped
    /\ ~app.lastHistory.stopped

\* C22: a failed inference does not end the capture loop: the loop reports the
\* error once and goes on waiting, the state machine's viewState and
\* runtimeState are left as they were, and the loop starts its next inference
\* no sooner than COOLDOWN_MS after the report
C22_CooldownAfterFailure ==
    [][\A k \in Loops :
        /\ (/\ app.loops[k].pc = "inferring" /\ ~app.loops[k].aborted
             /\ calls[k].pc = "rejected" /\ calls'[k].pc = "notCalled")
            => /\ app'.loops[k].pc = "waiting"
               /\ app'.loops[k].reported = 1
               /\ state'.viewState = state.viewState
               /\ state'.runtimeState = state.runtimeState
        /\ (calls[k].pc = "notCalled" /\ calls'[k].pc # "notCalled")
            => \/ app.loops[k].failedAgo = NoAge
               \/ app.loops[k].failedAgo >= COOLDOWN_MS]_vars

\* a loop that reported a failure has waited and started its next inference
C22_Witness ==
    \E k \in Loops :
        /\ app.loops[k].pc = "inferring"
        /\ app.loops[k].failedAgo = COOLDOWN_MS
        /\ calls[k].pc # "notCalled"

\* C23: a streamed text of an inference reaches the live caption no sooner
\* than UPDATE_THROTTLE_MS after the previous streamed text of that inference
C23_ThrottledUpdates ==
    app.lastCaption.streaming
        => \/ app.lastCaption.gap = NoAge
           \/ app.lastCaption.gap >= UPDATE_THROTTLE_MS

\* a second streamed text of one inference has been shown
C23_Witness ==
    /\ app.lastCaption.streaming
    /\ app.lastCaption.gap = UPDATE_THROTTLE_MS

----------------------------------------------------------------------------
(* Properties of the webcam service *)

\* C11: the delays waited since the counter was last reset are non-decreasing,
\* the delay of attempt n is 1000 * 2^(n-1) ms (1000, 2000, 4000), there is one
\* delay per counted attempt and no delay exceeds the 8000 ms ceiling
C11_BackoffDelays ==
    /\ Len(cam.delays) = cam.recoveryAttempts
    /\ cam.recoveryAttempts <= MAX_RECOVERY_ATTEMPTS
    /\ \A n \in DOMAIN cam.delays :
        /\ cam.delays[n] = <<1000, 2000, 4000>>[n]
        /\ cam.delays[n] <= 8000
        /\ n > 1 => cam.delays[n - 1] <= cam.delays[n]

\* three attempts have been counted and their three delays waited
C11_Witness ==
    /\ cam.recoveryAttempts = 3
    /\ cam.delays = <<1000, 2000, 4000>>

\* C12: recoveryAttempts is zero right after every successful acquisition
\* (initial, recovery or switchCamera), a failed attempt never resets it, and it
\* stays at the maximum once the attempts are exhausted
C12_CounterReset ==
    [][/\ cam'.acquired # cam.acquired => cam'.recoveryAttempts = 0
       /\ cam'.acquired = cam.acquired => cam'.recoveryAttempts >= cam.recoveryAttempts
       /\ cam'.recoveryAttempts <= MAX_RECOVERY_ATTEMPTS]_vars

\* the getUserMedia calls of request r follow the claimed order: the sets are
\* tried first to last, a set is tried only after the call for the set before it
\* was rejected, the request resolves with the first call that resolves and is
\* rejected only after all three calls were
OrderedFallback(r) ==
    /\ Len(r.log) <= 3
    /\ \A k \in DOMAIN r.log :
        /\ r.log[k].constraints = <<"ideal+facingMode", "facingMode", "any">>[k]
        /\ k < Len(r.log) => r.log[k].outcome = "rejected"
    /\ r.settled = "none" /\ r.log # <<>> => r.log[Len(r.log)].outcome = "pending"
    /\ r.settled = "resolved" =>
            (r.log[Len(r.log)].outcome = "resolved" /\ r.stream # NullStream)
    /\ r.settled = "rejected" =>
            (Len(r.log) = 3 /\ r.log[3].outcome = "rejected" /\ r.stream = NullStream)

\* C20: requestWebcamPermission tries the three constraint sets in order, each
\* only after the previous call failed, returns the stream of the first call
\* that succeeds and fails only when all three calls fail
C20_ConstraintFallback ==
    [][/\ OrderedFallback(cam'.request)
       /\ (cam.request.settled = "none" /\ cam'.request.settled = "resolved")
            => (/\ cam'.acquired = cam.acquired + 1
                /\ cam'.request.stream = cam'.acquired
                /\ cam'.currentStream = cam'.request.stream)]_vars

\* the first two calls failed and the request resolved with the third
C20_Witness ==
    /\ cam.request.settled = "resolved"
    /\ Len(cam.request.log) = 3
    /\ cam.request.stream = cam.currentStream

\* C21: switchCamera stops the tracks of the held stream before it requests
\* the new device; neither the switch (its call, its success, its failure) nor
\* the end of a track of a switched stream counts a recovery attempt or
\* schedules a backoff
C21_SwitchOutsideRecovery ==
    [][/\ (~cam.switching /\ cam'.switching)
            => /\ cam.currentStream # NullStream
                    => tracks'[cam.currentStream] = "ended"
               /\ cam'.currentStream = NullStream
       /\ (cam.switching # cam'.switching)
            => /\ cam'.recoveryAttempts = cam.recoveryAttempts
               /\ cam'.delays = cam.delays
               /\ cam'.ended = cam.ended
       /\ \A s \in Streams :
            (cam.handler[s] = "notify" /\ cam.ended[s] # cam'.ended[s])
                => /\ cam'.ended[s] = "done"
                   /\ cam'.recoveryAttempts = cam.recoveryAttempts
                   /\ cam'.delays = cam.delays]_vars

\* a switch has replaced a live stream, and the switched stream's track has
\* ended and been reported
C21_Witness ==
    \E s, t \in Streams :
        /\ s # t
        /\ tracks[s] = "ended" /\ cam.handler[s] = "recover" /\ cam.ended[s] = "idle"
        /\ cam.handler[t] = "notify" /\ cam.ended[t] = "done"
        /\ cam.lastCb = "ended"

----------------------------------------------------------------------------
(* Properties of the StateManager *)

\* how often listener r has been called with notification n
Delivered(m, n, r) ==
    Cardinality({i \in DOMAIN m.log : m.log[i].n = n /\ m.log[i].to = r})

\* every key of the updates has the given value already
NothingNew(obj, updates) == \A k \in DOMAIN updates : obj[k] = updates[k]

\* the object with the keys of the updates set to the given values
Merged(obj, updates) ==
    [k \in Keys |-> IF k \in DOMAIN updates THEN updates[k] ELSE obj[k]]

\* C25: getState returns a new object with the values of the state: it is
\* neither the live object nor an object returned before, and assigning to a
\* field of a returned object changes neither the manager's state (which later
\* getState calls return and notifications carry) nor anything delivered
C25_GetStateCopies ==
    [][/\ Len(mgr'.held) = Len(mgr.held) + 1
            => /\ mgr'.held[Len(mgr'.held)].vals = mgr.state
               /\ mgr'.held[Len(mgr'.held)].ref # mgr.cur
               /\ \A i \in DOMAIN mgr.held :
                    /\ mgr.held[i].ref # mgr'.held[Len(mgr'.held)].ref
                    /\ mgr'.held[i] = mgr.held[i]
               /\ mgr'.state = mgr.state
       /\ mgr'.last.op = "assign"
            => /\ mgr'.state = mgr.state
               /\ mgr'.log = mgr.log
       /\ (mgr'.last.op = "setState" /\ mgr'.emitted > mgr.emitted)
            => \A i \in DOMAIN mgr'.log \ DOMAIN mgr.log :
                    /\ mgr'.log[i].state = Merged(mgr.state, mgr'.last.updates)
                    /\ mgr'.log[i].prevState = mgr.state]_vars

\* two objects have been returned, one of them has been assigned to and
\* differs from the state, and a listener has been notified
C25_Witness ==
    /\ Len(mgr.held) = 2
    /\ mgr.held[1].vals # mgr.state
    /\ mgr.held[2].vals = mgr.state
    /\ mgr.log # <<>>
    /\ mgr.last.op = "assign"

\* every notification is delivered in the order in which the listeners were
\* added
InRegistrationOrder ==
    \A i, j \in DOMAIN mgr.log :
        (i < j /\ mgr.log[i].n = mgr.log[j].n) => mgr.log[i].to < mgr.log[j].to

\* C26 as stated: a listener is called exactly once with every notification
\* emitted after it was added and before its disposer was called, in the order
\* of registration, and with no other notification
C26_CalledUntilDisposed ==
    /\ InRegistrationOrder
    /\ \A r \in DOMAIN mgr.regs, n \in 1..mgr.emitted :
            Delivered(mgr, n, r) =
                IF /\ mgr.regs[r].since < n
                   /\ (mgr.regs[r].until = NoAge \/ n <= mgr.regs[r].until)
                THEN 1 ELSE 0

\* C26: as stated, except for the notification during whose delivery the
\* disposer was called by a listener added earlier: that one is not delivered
C26_CalledUntilDisposedInTurn ==
    /\ InRegistrationOrder
    /\ \A r \in DOMAIN mgr.regs, n \in 1..mgr.emitted :
            Delivered(mgr, n, r) =
                IF /\ mgr.regs[r].since < n
                   /\ \/ mgr.regs[r].until = NoAge
                      \/ n < mgr.regs[r].until
                      \/ n = mgr.regs[r].until
                            /\ (mgr.regs[r].by = 0 \/ mgr.regs[r].by >= r)
                THEN 1 ELSE 0

\* listener 2 was removed by listener 1 during a notification that listener 1
\* received and listener 2 did not
C26_Witness ==
    /\ Len(mgr.regs) = 2
    /\ mgr.regs[2].removed /\ mgr.regs[2].by = 1
    /\ Delivered(mgr, mgr.regs[2].until, 1) = 1
    /\ Delivered(mgr, mgr.regs[2].until, 2) = 0

\* C27: a setState call whose updates bring nothing new leaves the state as
\* it is and notifies nobody; a call that changes a value notifies every
\* listener that is still subscribed exactly once, and none more than once
C27_NotifyOnChangeOnly ==
    [][mgr'.last.op = "setState"
        => IF NothingNew(mgr.state, mgr'.last.updates)
           THEN /\ mgr'.state = mgr.state
                /\ mgr'.emitted = mgr.emitted
                /\ mgr'.log = mgr.log
           ELSE /\ mgr'.emitted > mgr.emitted
                /\ \A r \in DOMAIN mgr.regs :
                    /\ Delivered(mgr', mgr.emitted + 1, r) <= 1
                    /\ ~mgr'.regs[r].removed
                            => Delivered(mgr', mgr.emitted + 1, r) = 1]_vars

\* with a listener subscribed, a call that names a key has notified nobody
C27_Witness ==
    /\ mgr.last.op = "setState"
    /\ mgr.last.updates # <<>>
    /\ mgr.emitted = 0
    /\ \E r \in DOMAIN mgr.regs : ~mgr.regs[r].removed

----------------------------------------------------------------------------
(* Properties of the notifications *)

\* C13: every subscriber observes the notifications in the order in which the
\* calls that emitted them were made, none skipped, also when a subscriber
\* calls dispatch or setState while it handles a notification
C13_OrderedDelivery ==
    \A k \in Subscribers : subs.seen[k] = subs.made

\* the fields of obj with isVideoReady set to ready
WithReady(obj, ready, f) == IF f = "isVideoReady" THEN ready ELSE obj[f]

\* C28: the state a setState call leaves has the given value for the key named
\* in the updates and the previous value for every other key, and every
\* listener called with the notification of the call reads that state in
\* detail.state and the state before the call in detail.prevState
C28_SetStateMerges ==
    /\ \A n \in DOMAIN subs.sent :
            subs.sent[n].op = "setState"
                => \A f \in DOMAIN subs.sent[n].prevState :
                        subs.sent[n].state[f] =
                            WithReady(subs.sent[n].prevState, subs.sent[n].ready, f)
    /\ \A k \in Subscribers : \A i \in DOMAIN subs.got[k] :
            subs.sent[subs.got[k][i].n].op = "setState"
                => /\ subs.got[k][i].prevState = subs.sent[subs.got[k][i].n].prevState
                   /\ \A f \in DOMAIN subs.got[k][i].state :
                        subs.got[k][i].state[f] =
                            WithReady(subs.sent[subs.got[k][i].n].prevState,
                                      subs.sent[subs.got[k][i].n].ready, f)

\* as C28, for the listeners called while no listener has called back since the
\* call
C28_SetStateMergesUndisturbed ==
    /\ \A n \in DOMAIN subs.sent :
            subs.sent[n].op = "setState"
                => \A f \in DOMAIN subs.sent[n].prevState :
                        subs.sent[n].state[f] =
                            WithReady(subs.sent[n].prevState, subs.sent[n].ready, f)
    /\ \A k \in Subscribers : \A i \in DOMAIN subs.got[k] :
            /\ subs.sent[subs.got[k][i].n].op = "setState"
            /\ \/ k = 1
               \/ subs.got[k][i].n = Len(subs.sent)
               \/ subs.seen[k] = subs.made
            => /\ subs.got[k][i].prevState = subs.sent[subs.got[k][i].n].prevState
               /\ subs.got[k][i].state = subs.sent[subs.got[k][i].n].state

----------------------------------------------------------------------------
(* Properties of the composed application *)

C30_RecoveredStreamStored ==
    [][(\E s \in Streams : /\ state.viewState = "runtime"
                           /\ state.webcamStream = s
                           /\ cam.ended[s] = "waiting"
                           /\ cam'.ended[s] = "done"
                           /\ cam'.acquired = cam.acquired + 1)
        => /\ state'.webcamStream = cam'.currentStream
           /\ state'.runtimeState = "running"
           /\ state'.error = Null]_vars

----------------------------------------------------------------------------
(* Properties of the recover actions *)

\* the event a recover action's handler dispatches
HandlerEvent(handler) ==
    CASE handler = "dispatch:RETRY" -> "RETRY"
      [] handler = "dispatch:RETRY_STREAM" -> "RETRY_STREAM"
      [] OTHER -> "none"

\* C31: the handler of a recover action that the state machine attaches to an
\* error reloads the page or dispatches an event that has a row in the state
\* in which the error was created
C31_RecoverActionHasRow ==
    [][(/\ Dispatched
        /\ state'.error # Null
        /\ state'.error # state.error
        /\ state'.error[1].recoverAction # lastCall'.data.recoverAction)
        => \/ state'.error[1].recoverAction.handler = "reload"
           \/ ~NoRow(HandlerEvent(state'.error[1].recoverAction.handler),
                     state'.viewState)]_vars

----------------------------------------------------------------------------
(* Further properties of the inference service *)

\* C32: the lock is set only while a call that took it is still running: a
\* call that has completed, with a result, with an inference error or because
\* the model is not loaded, has released it
C32_LockReleasedOnCompletion ==
    inferenceLock => \E c \in Calls : calls[c].pc \in {"processing", "generating"}

\* a call that found the lock free has failed, and a later call is running
C32_Witness ==
    \E a, b \in Calls :
        /\ calls[a].pc = "rejected" /\ calls[a].during = 0
        /\ calls[b].pc = "generating" /\ calls[b].during = 0
        /\ inferenceLock

----------------------------------------------------------------------------
(* Further properties of the webcam service *)

\* recoveryAttempts never exceeds MAX_RECOVERY_ATTEMPTS
CounterBounded == cam.recoveryAttempts <= MAX_RECOVERY_ATTEMPTS

\* C33: the recovery that follows the end of a track makes at most
\* MAX_RECOVERY_ATTEMPTS acquisition attempts, and recoveryAttempts never
\* exceeds MAX_RECOVERY_ATTEMPTS
C33_BoundedRecovery ==
    /\ CounterBounded
    /\ \A s \in Streams : cam.tries[s] <= MAX_RECOVERY_ATTEMPTS

----------------------------------------------------------------------------
(* Further properties of the capture loop *)

\* C34: a capture loop calls runInference only while the lock is free, so its
\* call takes the lock, or fails before taking it, and is never the skipped
\* call that returns ''; with the lock set the loop waits and calls nothing
C34_LoopCallsOnlyWhenFree ==
    [][\A k \in Loops :
        /\ (calls[k].pc = "notCalled" /\ calls'[k].pc # "notCalled")
                => /\ ~inferenceLock
                   /\ calls'[k].during = 0
                   /\ calls'[k].pc \in {"processing", "rejected"}
        /\ (inferenceLock /\ app.loops[k].pc = "waiting")
                => app'.loops[k].pc # "inferring"]_vars

\* a loop has skipped a frame while the call of the loop stopped before it is
\* still generating
C34_Witness ==
    \E j, k \in Loops :
        /\ app.loops[k].pc = "waiting" /\ app.loops[k].sleep = BUSY_WAIT_MS
        /\ app.loops[j].pc = "inferring" /\ app.loops[j].aborted
        /\ calls[j].pc = "generating"
        /\ inferenceLock

\* the loops that exist and whose signal is not aborted
LiveLoops == {k \in Loops : app.loops[k].pc # "none" /\ ~app.loops[k].aborted}

\* C35: at most one capture loop with a non-aborted signal exists, it is the
\* loop of the current controller, and none exists while capture is paused or
\* the captioning view is not mounted
C35_OneLiveLoop ==
    /\ Cardinality(LiveLoops) <= 1
    /\ \A k \in LiveLoops : app.controller = k
    /\ (~app.isRunning \/ app.mounted # "captioning-view") => LiveLoops = {}

\* a loop has been started while the loop stopped before it still awaits its
\* inference
C35_Witness ==
    \E j, k \in Loops :
        /\ app.loops[j].pc = "inferring" /\ app.loops[j].aborted
        /\ k \in LiveLoops
        /\ app.isRunning

----------------------------------------------------------------------------
(* Further properties of the composed application *)

\* C36: a loading sequence is started only by the step that enters the loading
\* view: no step taken inside the loading view starts another one
C36_OneSequencePerVisit ==
    [][LiveLoads(app') > LiveLoads(app) => state.viewState # "loading"]_vars

----------------------------------------------------------------------------
(* Invariants of the state machine *)

\* C37: in the views welcome, loading and runtime the state holds a camera
\* stream
C37_StreamHeld ==
    state.viewState \in {"welcome", "loading", "runtime"}
        => state.webcamStream # NullStream

\* C38: the view and the runtime state agree: the runtime view is running,
\* paused or recovering, only the runtime view is running, only the loading
\* view is warming and only the error view has failed
C38_AxesConsistent ==
    /\ state.viewState = "runtime"
            => state.runtimeState \in {"running", "paused", "recovering"}
    /\ state.runtimeState = "running" => state.viewState = "runtime"
    /\ state.runtimeState = "warming" => state.viewState = "loading"
    /\ state.runtimeState = "failed" => state.viewState = "error"

\* the runtime view is recovering from the end of its stream
C38_Witness ==
    /\ state.viewState = "runtime" /\ state.runtimeState = "recovering"
    /\ lastCall.op = "dispatch" /\ lastCall.event = "STREAM_ENDED"
    /\ lastCall.returned

----------------------------------------------------------------------------
(* Loading the model *)

\* some load has succeeded
Succeeded(l) == \E n \in 1 .. Len(l.loads) : l.loads[n] = "fulfilled"

\* caller c makes its loadModel call in this step
CallsLoadModel(c) ==
    loader.callers[c].pc = "idle" /\ loader'.callers[c].pc # "idle"

\* C39: at most one model load runs at a time, and a loadModel call made while
\* one runs awaits that load and starts none; once a load has succeeded a call
\* returns at once and starts none; a failed load leaves isLoading and
\* loadPromise cleared, and a call made when no load runs and none has
\* succeeded starts a fresh load and awaits it.
C39_LoadShared ==
    [][/\ Cardinality(Running(loader')) <= 1
       /\ (Running(loader') = {} /\ ~Succeeded(loader'))
            => (~loader'.isLoading /\ loader'.loadPromise = 0)
       /\ \A c \in LoadCallers : CallsLoadModel(c) =>
            /\ Running(loader) # {}
                => /\ loader'.loads = loader.loads
                   /\ loader'.callers[c].pc = "awaiting"
                   /\ loader'.callers[c].awaits \in Running(loader)
            /\ Succeeded(loader)
                => /\ loader'.loads = loader.loads
                   /\ loader'.callers[c].pc = "returned"
            /\ (Running(loader) = {} /\ ~Succeeded(loader))
                => /\ loader'.loads = Append(loader.loads, "detect")
                   /\ loader'.callers[c].pc = "awaiting"
                   /\ loader'.callers[c].awaits = Len(loader'.loads)]_vars

\* a load has failed, a fresh one runs, and both callers await the fresh one
C39_Witness ==
    /\ Len(loader.loads) = 2
    /\ loader.loads[1] = "rejected"
    /\ loader.loads[2] \in {"detect", "processor", "model"}
    /\ \A c \in LoadCallers :
        loader.callers[c].pc = "awaiting" /\ loader.callers[c].awaits = 2

----------------------------------------------------------------------------
(* Camera error guidance *)

\* C40: for each platform error kind, getCameraErrorMessage applied to the
\* enriched error thrown by requestWebcamPermission yields the same message and
\* technical string as applied to the platform error itself.
C40_ClassificationSurvives ==
    (cam.thrown # <<>> /\ cam.caught[1].name \in PlatformKinds)
        => /\ getCameraErrorMessage(cam.thrown[1], cam.env).message
                = getCameraErrorMessage(cam.caught[1], cam.env).message
           /\ getCameraErrorMessage(cam.thrown[1], cam.env).technical
                = getCameraErrorMessage(cam.caught[1], cam.env).technical

====
